---------------------------- MODULE Spec2Model ----------------------------
(***************************************************************************)
(* Model of the differential-drive wheel controller: the sector            *)
(* calibrator (dual LUT, calibration and alignment runs, persistence) and  *)
(* the pulse capture / velocity estimator of EncoderPCNT.                  *)
(*                                                                         *)
(* float values are modelled as exact rationals <<num, den>> (den > 0, in  *)
(* lowest terms); <<1, 0>> and <<-1, 0>> stand for the sentinels 1e30f and *)
(* -1e30f, which are larger in magnitude than every value the model        *)
(* computes.                                                               *)
(***************************************************************************)
EXTENDS Integers, Sequences, FiniteSets, TLC

(***************************************************************************)
(* Bounds of the model.                                                    *)
(***************************************************************************)
\* number of sectors (pulses per revolution) of a wheel
PPR == 3
\* Config.maxLaps of the calibrator, also the largest run length explored
MaxLaps == 3
\* the encoder ISR accepts at most this many pulses per wheel
MaxPulses == 2

\* routines started on one wheel in a behaviour of SpecStart
MaxRuns == 2

\* calls the main loop makes on the drive besides update() in a behaviour of SpecDrive
MaxCalls == 2

\* period samples (microseconds) carried by the pulses
PeriodSamples == {1, 2}

Wheels == {"R", "L"}

(***************************************************************************)
(* float arithmetic                                                        *)
(***************************************************************************)
\* the element of a one-element set.  The({e(x) : x \in {v}}) is e(v), with
\* v computed once however often e uses x
The(s) == CHOOSE x \in s : TRUE

RECURSIVE GCD(_, _)
GCD(a, b) == IF b = 0 THEN a ELSE The({GCD(b, r) : r \in {a % b}})

IAbs(n) == IF n < 0 THEN -n ELSE n

RNorm(n, d) ==
  IF n = 0 THEN <<0, 1>>
  ELSE The({<<(s * n) \div g, (s * d) \div g>> :
              g \in {GCD(IAbs(n), IAbs(d))}, s \in {IF d < 0 THEN -1 ELSE 1}})

F(n) == <<n, 1>>

FRat(n, d) == RNorm(n, d)

FLT_1e30 == <<1, 0>>

FLT_neg1e30 == <<-1, 0>>

FAdd(a, b) ==
  The({RNorm(x[1] * y[2] + y[1] * x[2], x[2] * y[2]) : x \in {a}, y \in {b}})

FSub(a, b) ==
  The({RNorm(x[1] * y[2] - y[1] * x[2], x[2] * y[2]) : x \in {a}, y \in {b}})

FMul(a, b) == The({RNorm(x[1] * y[1], x[2] * y[2]) : x \in {a}, y \in {b}})

\* b is never 0 where the code divides
FDiv(a, b) == The({RNorm(x[1] * y[2], x[2] * y[1]) : x \in {a}, y \in {b}})

FLessV(a, b) ==
  IF a[2] = 0 /\ b[2] = 0 THEN a[1] < b[1]
  ELSE IF a[2] = 0 THEN a[1] < 0
  ELSE IF b[2] = 0 THEN b[1] > 0
  ELSE a[1] * b[2] < b[1] * a[2]

FLess(a, b) == \E x \in {a}, y \in {b} : FLessV(x, y)

FLeq(a, b) == ~FLess(b, a)

FNeg(a) == The({<<-x[1], x[2]>> : x \in {a}})

FIsZero(a) == a[1] = 0

RECURSIVE FSumTo(_, _)
\* f[0] + f[1] + ... + f[n-1], accumulated left to right
FSumTo(f, n) == IF n = 0 THEN F(0) ELSE FAdd(FSumTo(f, n - 1), f[n - 1])

RECURSIVE FMinTo(_, _)
\* minv after the scan of f[0..n-1], starting from 1e30f
FMinTo(f, n) ==
  IF n = 0 THEN FLT_1e30
  ELSE The({IF FLess(f[n - 1], m) THEN f[n - 1] ELSE m : m \in {FMinTo(f, n - 1)}})

RECURSIVE FMaxTo(_, _)
\* maxv after the scan of f[0..n-1], starting from -1e30f
FMaxTo(f, n) ==
  IF n = 0 THEN FLT_neg1e30
  ELSE The({IF FLess(m, f[n - 1]) THEN f[n - 1] ELSE m : m \in {FMaxTo(f, n - 1)}})

FAbsDiff(a, b) == The({IF FLess(d, F(0)) THEN FNeg(d) ELSE d : d \in {FSub(a, b)}})

(***************************************************************************)
(* Persistent store (Preferences): one namespace per wheel.  A record is   *)
(* present or not; a bytes record holds len floats.                        *)
(***************************************************************************)
NoBool == [has |-> FALSE, v |-> FALSE]

NoUShort == [has |-> FALSE, v |-> 0]

NoBytes == [has |-> FALSE, len |-> 0, v |-> <<>>]

EmptyStore ==
  [use_fwd |-> NoBool, use_rev |-> NoBool, off_fwd |-> NoUShort,
   off_rev |-> NoUShort, lut_fwd |-> NoBytes, lut_rev |-> NoBytes,
   use_lut |-> NoBool, lut |-> NoBytes]

getBool(rec, dflt) == IF rec.has THEN rec.v ELSE dflt

getUShort(rec, dflt) == IF rec.has THEN rec.v ELSE dflt

putBool(b) == [has |-> TRUE, v |-> b]

\* putUShort(key, value): the 16 bits of the value
putUShort(n) == [has |-> TRUE, v |-> n % 65536]

putBytes(arr, n) == [has |-> TRUE, len |-> n, v |-> [k \in 0 .. (n - 1) |-> arr[k]]]

\* isKey(key) && getBytesLength(key) == need, need = ppr * sizeof(float)
haveBytes(rec, ppr) == rec.has /\ rec.len = ppr

(***************************************************************************)
(* SectorCalibrator                                                        *)
(***************************************************************************)
idx2D(k, lap, ppr) == k + lap * ppr

Ones(ppr) == [k \in 0 .. (ppr - 1) |-> F(1)]

\* constructor and _alloc(): the LUTs are 1.0; the other arrays are
\* allocated and never read before the code writes them (shown as 0)
NewCalibrator(cfg) ==
  [cfg |-> cfg,
   lutFwd |-> Ones(cfg.ppr), lutRev |-> Ones(cfg.ppr),
   patFwd |-> [k \in 0 .. (cfg.ppr - 1) |-> F(0)],
   patRev |-> [k \in 0 .. (cfg.ppr - 1) |-> F(0)],
   useFwd |-> TRUE, useRev |-> TRUE,
   patFwdReady |-> FALSE, patRevReady |-> FALSE,
   offFwd |-> 0, offRev |-> 0, modeDir |-> 1,
   calibActive |-> FALSE, calibTargetN |-> 0, calibLap |-> 0,
   dtBuf |-> [i \in 0 .. (cfg.ppr * cfg.maxLaps - 1) |-> F(0)],
   dtFilled |-> [i \in 0 .. (cfg.ppr * cfg.maxLaps - 1) |-> FALSE],
   alignActive |-> FALSE, alignTargetN |-> 0, alignLap |-> 0,
   alignBuf |-> [i \in 0 .. (cfg.ppr * cfg.maxLaps - 1) |-> F(0)]]

\* the divisor of _buildPatternFromLUT_*: sum / ppr, or 1.0 when that is not positive
patternMean(sum, ppr) ==
  The({IF FLeq(m0, F(0)) THEN F(1) ELSE m0 :
         m0 \in {IF FLess(F(0), sum) THEN FDiv(sum, F(ppr)) ELSE F(1)}})

\* _buildPatternFromLUT_Fwd / _Rev: the pattern and its ready flag
buildPatternFromLUT(lut, ppr) ==
  The({The({[pat   |-> [k \in 0 .. (ppr - 1) |-> FDiv(p[k], mean)],
             ready |-> FLess(FRat(1, 1000), FSub(FMaxTo(p, ppr), FMinTo(p, ppr)))] :
              mean \in {patternMean(FSumTo(p, ppr), ppr)}}) :
         p \in {[k \in 0 .. (ppr - 1) |->
                   IF ~FIsZero(lut[k]) THEN FDiv(F(1), lut[k]) ELSE F(1)]}})

rebuildPatterns(c) ==
  The({[c EXCEPT !.patFwd = pf.pat, !.patFwdReady = pf.ready,
                 !.patRev = pr.pat, !.patRevReady = pr.ready] :
         pf \in {buildPatternFromLUT(c.lutFwd, c.cfg.ppr)},
         pr \in {buildPatternFromLUT(c.lutRev, c.cfg.ppr)}})

\* load() without the migration of the legacy records
load_legacyIgnored(c, st) ==
  The({rebuildPatterns(x) :
         x \in {[c EXCEPT
                  !.lutFwd = IF haveBytes(st.lut_fwd, c.cfg.ppr) THEN st.lut_fwd.v
                             ELSE Ones(c.cfg.ppr),
                  !.lutRev = IF haveBytes(st.lut_rev, c.cfg.ppr) THEN st.lut_rev.v
                             ELSE Ones(c.cfg.ppr),
                  !.useFwd = getBool(st.use_fwd, c.cfg.useLUTByDefault),
                  !.useRev = getBool(st.use_rev, c.cfg.useLUTByDefault),
                  !.offFwd = getUShort(st.off_fwd, 0),
                  !.offRev = getUShort(st.off_rev, 0)]}})

\* load(): the calibrator after reading store st
load(c, st) ==
  LET ppr     == c.cfg.ppr
      haveFwd == haveBytes(st.lut_fwd, ppr)
      haveRev == haveBytes(st.lut_rev, ppr)
      legacy  == haveBytes(st.lut, ppr)
      useLegacy == getBool(st.use_lut, c.cfg.useLUTByDefault)
      c1 == [c EXCEPT
               !.lutFwd = IF haveFwd THEN st.lut_fwd.v ELSE @,
               !.lutRev = IF haveRev THEN st.lut_rev.v ELSE @,
               !.useFwd = getBool(st.use_fwd, c.cfg.useLUTByDefault),
               !.useRev = getBool(st.use_rev, c.cfg.useLUTByDefault),
               !.offFwd = getUShort(st.off_fwd, 0),
               !.offRev = getUShort(st.off_rev, 0)]
      c2 == IF ~haveFwd /\ ~haveRev
            THEN IF legacy
                 THEN [c1 EXCEPT !.lutFwd = st.lut.v, !.lutRev = Ones(ppr),
                                 !.useFwd = useLegacy, !.useRev = useLegacy]
                 ELSE [c1 EXCEPT !.lutFwd = Ones(ppr), !.lutRev = Ones(ppr),
                                 !.useFwd = c.cfg.useLUTByDefault,
                                 !.useRev = c.cfg.useLUTByDefault]
            ELSE [c1 EXCEPT !.lutFwd = IF ~haveFwd THEN Ones(ppr) ELSE @,
                            !.lutRev = IF ~haveRev THEN Ones(ppr) ELSE @]
  IN  The({rebuildPatterns(x) : x \in {c2}})

\* the records of save() without the reverse offset
saveRecords_noOffRev(c, st) ==
  [st EXCEPT !.use_fwd = putBool(c.useFwd), !.use_rev = putBool(c.useRev),
             !.off_fwd = putUShort(c.offFwd),
             !.lut_fwd = putBytes(c.lutFwd, c.cfg.ppr),
             !.lut_rev = putBytes(c.lutRev, c.cfg.ppr)]

\* the six records save() writes; the legacy records are left as they are
saveRecords(c, st) ==
  [st EXCEPT !.use_fwd = putBool(c.useFwd), !.use_rev = putBool(c.useRev),
             !.off_fwd = putUShort(c.offFwd), !.off_rev = putUShort(c.offRev),
             !.lut_fwd = putBytes(c.lutFwd, c.cfg.ppr),
             !.lut_rev = putBytes(c.lutRev, c.cfg.ppr)]

\* save(): the store written and both patterns rebuilt
save(c, st) == [cal |-> rebuildPatterns(c), nvs |-> saveRecords(c, st)]

\* a clear() that leaves the use flags as they are
clear_keepFlags(c, st) ==
  The({save(x, st) :
         x \in {[c EXCEPT !.lutFwd = Ones(c.cfg.ppr), !.lutRev = Ones(c.cfg.ppr),
                          !.offFwd = 0, !.offRev = 0]}})

\* clear()
clear(c, st) ==
  The({save(x, st) :
         x \in {[c EXCEPT !.lutFwd = Ones(c.cfg.ppr), !.lutRev = Ones(c.cfg.ppr),
                          !.useFwd = FALSE, !.useRev = FALSE,
                          !.offFwd = 0, !.offRev = 0]}})

\* the correction read at sector k itself, whatever the offset
correctDtDir_noOffset(c, k, dt, stepDir) ==
  IF stepDir >= 0 THEN (IF c.useFwd THEN FMul(dt, c.lutFwd[k]) ELSE dt)
  ELSE (IF c.useRev THEN FMul(dt, c.lutRev[k]) ELSE dt)

\* correctDtDir(k, dt_us, stepDir)
correctDtDir(c, k, dt, stepDir) ==
  LET forward == stepDir >= 0
      off == IF forward THEN c.offFwd ELSE c.offRev
      idx == (k + off) % c.cfg.ppr
  IN  IF forward THEN (IF c.useFwd THEN FMul(dt, c.lutFwd[idx]) ELSE dt)
      ELSE (IF c.useRev THEN FMul(dt, c.lutRev[idx]) ELSE dt)

(***************************************************************************)
(* Calibration run                                                         *)
(***************************************************************************)
\* _resetCalibBuffers(): rows 0 .. calibTargetN-1
resetCalibBuffers(c) ==
  LET n == c.calibTargetN * c.cfg.ppr
  IN  [c EXCEPT !.dtBuf = [i \in DOMAIN c.dtBuf |-> IF i < n THEN F(0) ELSE c.dtBuf[i]],
                !.dtFilled = [i \in DOMAIN c.dtFilled |-> IF i < n THEN FALSE ELSE c.dtFilled[i]]]

\* startCalibrationDir(lapsN, stepDir): the return value
startCalibrationDirOk(c, lapsN) == ~(lapsN = 0 \/ lapsN > c.cfg.maxLaps)

\* startCalibrationDir(lapsN, stepDir): the calibrator afterwards
startCalibrationDir(c, lapsN, stepDir) ==
  IF ~startCalibrationDirOk(c, lapsN) THEN c
  ELSE The({resetCalibBuffers(x) :
              x \in {[c EXCEPT !.modeDir = IF stepDir >= 0 THEN 1 ELSE -1,
                               !.calibTargetN = lapsN,
                               !.calibLap = 0,
                               !.calibActive = TRUE]}})

\* _resetAlignBuffers(): rows 0 .. alignTargetN-1
resetAlignBuffers(c) ==
  LET n == c.alignTargetN * c.cfg.ppr
  IN  [c EXCEPT !.alignBuf = [i \in DOMAIN c.alignBuf |-> IF i < n THEN F(0) ELSE c.alignBuf[i]]]

\* startAlignmentDir(lapsN, stepDir): the return value
startAlignmentDirOk(c, lapsN, stepDir) ==
  LET forward == stepDir >= 0
  IN  /\ ~(lapsN = 0 \/ lapsN > c.cfg.maxLaps)
      /\ ~(forward /\ ~c.patFwdReady)
      /\ ~(~forward /\ ~c.patRevReady)

\* startAlignmentDir(lapsN, stepDir): the calibrator afterwards
startAlignmentDir(c, lapsN, stepDir) ==
  IF ~startAlignmentDirOk(c, lapsN, stepDir) THEN c
  ELSE The({resetAlignBuffers(x) :
              x \in {[c EXCEPT !.modeDir = IF stepDir >= 0 THEN 1 ELSE -1,
                               !.alignTargetN = lapsN,
                               !.alignLap = 0,
                               !.alignActive = TRUE]}})

\* feedPeriod(sectorK, dt_us): the calibration half
feedCalib(c, sectorK, dt) ==
  IF c.calibActive /\ c.calibLap < c.calibTargetN
  THEN LET id == idx2D(sectorK, c.calibLap, c.cfg.ppr)
       IN  [c EXCEPT !.dtBuf[id] = dt, !.dtFilled[id] = TRUE,
                     !.calibLap = IF sectorK = c.cfg.ppr - 1 THEN @ + 1 ELSE @]
  ELSE c

\* feedPeriod(sectorK, dt_us): the alignment half
feedAlign(c, sectorK, dt) ==
  IF c.alignActive /\ c.alignLap < c.alignTargetN
  THEN LET id == idx2D(sectorK, c.alignLap, c.cfg.ppr)
       IN  [c EXCEPT !.alignBuf[id] = dt,
                     !.alignLap = IF sectorK = c.cfg.ppr - 1 THEN @ + 1 ELSE @]
  ELSE c

feedPeriod(c, sectorK, dt) ==
  The({feedAlign(x, sectorK, dt) : x \in {feedCalib(c, sectorK, dt)}})

RECURSIVE argMinTo(_, _)
\* iMin after the scan of vals[1..n] (the code's vals[0..n-1])
argMinTo(vals, n) ==
  IF n = 1 THEN 1
  ELSE The({IF FLess(vals[n], vals[m]) THEN n ELSE m : m \in {argMinTo(vals, n - 1)}})

RECURSIVE argMaxTo(_, _)
\* iMax after the scan of vals[1..n]
argMaxTo(vals, n) ==
  IF n = 1 THEN 1
  ELSE The({IF FLess(vals[m], vals[n]) THEN n ELSE m : m \in {argMaxTo(vals, n - 1)}})

RECURSIVE sumSkipping(_, _, _, _)
\* [s, cnt] after the loop over vals[1..n] that skips iMin and iMax
sumSkipping(vals, n, iMin, iMax) ==
  IF n = 0 THEN [s |-> F(0), cnt |-> 0]
  ELSE The({IF n = iMin \/ n = iMax THEN r
            ELSE [s |-> FAdd(r.s, vals[n]), cnt |-> r.cnt + 1] :
              r \in {sumSkipping(vals, n - 1, iMin, iMax)}})

RECURSIVE seqSum(_, _)
seqSum(vals, n) == IF n = 0 THEN F(0) ELSE FAdd(seqSum(vals, n - 1), vals[n])

\* the mean of all n samples: _trimmedMean without the trimming
trimmedMean_noTrim(vals, n) ==
  IF n = 0 THEN F(0) ELSE FDiv(seqSum(vals, n), F(n))

\* _trimmedMean(vals, n); vals is the sequence tmp[0..n-1]
trimmedMean(vals, n) ==
  IF n = 0 THEN F(0)
  ELSE IF n <= 2 THEN FDiv(seqSum(vals, n), F(n))
  ELSE The({IF r.cnt > 0 THEN FDiv(r.s, F(r.cnt)) ELSE F(0) :
              r \in {The({sumSkipping(vals, n, iMin, iMax) :
                            iMin \in {argMinTo(vals, n)},
                            iMax \in {argMaxTo(vals, n)}})}})

RECURSIVE filledSamples(_, _, _)
\* tmp[] for sector k after the scan of laps 0 .. j-1
filledSamples(c, k, j) ==
  IF j = 0 THEN <<>>
  ELSE The({IF c.dtFilled[id] THEN Append(r, c.dtBuf[id]) ELSE r :
              r \in {filledSamples(c, k, j - 1)},
              id \in {idx2D(k, j - 1, c.cfg.ppr)}})

\* sectorMean[k]
sectorMeanOf(c, k) ==
  The({IF Len(tmp) > 0 THEN trimmedMean(tmp, Len(tmp)) ELSE F(0) :
         tmp \in {filledSamples(c, k, c.calibTargetN)}})

RECURSIVE globalAcc(_, _)
\* [sum, count] after sectors 0 .. n-1
globalAcc(sm, n) ==
  IF n = 0 THEN [sum |-> F(0), count |-> 0]
  ELSE The({IF FLess(F(0), sm[n - 1])
            THEN [sum |-> FAdd(r.sum, sm[n - 1]), count |-> r.count + 1]
            ELSE r :
              r \in {globalAcc(sm, n - 1)}})

\* the LUT with every factor inverted: sectorMean[k] / globalMean
lutFromMeans_inverted(sm, globalMean, ppr) ==
  [k \in 0 .. (ppr - 1) |->
     FDiv(IF FLeq(sm[k], F(0)) THEN globalMean ELSE sm[k], globalMean)]

\* the LUT written for sector means sm and their global mean
lutFromMeans(sm, globalMean, ppr) ==
  [k \in 0 .. (ppr - 1) |->
     FDiv(globalMean, IF FLeq(sm[k], F(0)) THEN globalMean ELSE sm[k])]

\* a completion that stores the LUT and the run's end without rebuilding
storeLUT_staleReverse(c, st, lut) ==
  IF c.modeDir >= 0
  THEN [cal |-> [rebuildPatterns([c EXCEPT !.lutFwd = lut]) EXCEPT !.calibActive = FALSE],
        nvs |-> saveRecords([c EXCEPT !.lutFwd = lut], st), ret |-> TRUE]
  ELSE [cal |-> [c EXCEPT !.lutRev = lut, !.calibActive = FALSE],
        nvs |-> saveRecords([c EXCEPT !.lutRev = lut], st), ret |-> TRUE]

\* the end of finishCalibrationIfReady() when ok: LUT written, saved, run closed
storeLUT(c, st, lut) ==
  The({[cal |-> [sv.cal EXCEPT !.calibActive = FALSE], nvs |-> sv.nvs, ret |-> TRUE] :
         sv \in {The({save(c1, st) :
                        c1 \in {IF c.modeDir >= 0 THEN [c EXCEPT !.lutFwd = lut]
                                                  ELSE [c EXCEPT !.lutRev = lut]}})}})

\* a completion that stores a flat LUT when no sector has a usable mean
finishCalibration_flatOnEmpty(c, st) ==
  IF ~c.calibActive \/ c.calibLap < c.calibTargetN
  THEN [cal |-> c, nvs |-> st, ret |-> FALSE]
  ELSE The({The({IF g.count > 0
                 THEN The({storeLUT(c, st, lut) :
                             lut \in {lutFromMeans(sm, FDiv(g.sum, F(g.count)), c.cfg.ppr)}})
                 ELSE storeLUT(c, st, Ones(c.cfg.ppr)) :
                   g \in {globalAcc(sm, c.cfg.ppr)}}) :
              sm \in {[k \in 0 .. (c.cfg.ppr - 1) |-> sectorMeanOf(c, k)]}})

\* finishCalibrationIfReady(): [cal, nvs, ret]
finishCalibrationIfReady(c, st) ==
  IF ~c.calibActive \/ c.calibLap < c.calibTargetN
  THEN [cal |-> c, nvs |-> st, ret |-> FALSE]
  ELSE The({The({IF g.count > 0
                 THEN The({storeLUT(c, st, lut) :
                             lut \in {lutFromMeans(sm, FDiv(g.sum, F(g.count)), c.cfg.ppr)}})
                 ELSE [cal |-> [c EXCEPT !.calibActive = FALSE], nvs |-> st, ret |-> FALSE] :
                   g \in {globalAcc(sm, c.cfg.ppr)}}) :
              sm \in {[k \in 0 .. (c.cfg.ppr - 1) |-> sectorMeanOf(c, k)]}})

(***************************************************************************)
(* Alignment run                                                           *)
(***************************************************************************)
\* the row of lap lapIdx in the alignment buffer, as win[k] before scaling
lapRow(c, lapIdx) ==
  [k \in 0 .. (c.cfg.ppr - 1) |-> c.alignBuf[idx2D(k, lapIdx, c.cfg.ppr)]]

\* the L1 error against the pattern as it lies, whatever the shift
l1ErrTo_noShift(row, mean, pattern, shift, n) ==
  FSumTo([k \in 0 .. (n - 1) |-> FAbsDiff(FDiv(row[k], mean), pattern[k])], n)

RECURSIVE l1ErrTo(_, _, _, _, _)
\* err after sectors 0 .. n-1 for one shift; win = row[k] / mean
l1ErrTo(row, mean, pattern, shift, n) ==
  IF n = 0 THEN F(0)
  ELSE FAdd(l1ErrTo(row, mean, pattern, shift, n - 1),
            FAbsDiff(FDiv(row[n - 1], mean),
                     pattern[((n - 1) + shift) % Cardinality(DOMAIN row)]))

\* score of one shift: err / ppr
shiftScore(row, mean, pattern, shift) ==
  The({FDiv(l1ErrTo(row, mean, pattern, shift, ppr), F(ppr)) :
         ppr \in {Cardinality(DOMAIN row)}})

RECURSIVE bestShiftTo(_, _, _, _)
\* [bestOff, bestScore] after shifts 0 .. n-1
bestShiftTo(row, mean, pattern, n) ==
  IF n = 0 THEN [bestOff |-> 0, bestScore |-> FLT_1e30]
  ELSE The({IF FLess(score, r.bestScore)
            THEN [bestOff |-> n - 1, bestScore |-> score]
            ELSE r :
              r \in {bestShiftTo(row, mean, pattern, n - 1)},
              score \in {shiftScore(row, mean, pattern, n - 1)}})

\* _bestOffsetSingleLap(lapIdx, bestOff, bestScore, forward): [ok, bestOff, bestScore]
bestOffsetSingleLap(c, lapIdx, forward) ==
  The({The({IF FLeq(sum, F(0))
            THEN [ok |-> FALSE, bestOff |-> 0, bestScore |-> FLT_1e30]
            ELSE The({[ok |-> TRUE, bestOff |-> r.bestOff, bestScore |-> r.bestScore] :
                        r \in {The({bestShiftTo(row, mean,
                                                IF forward THEN c.patFwd ELSE c.patRev,
                                                c.cfg.ppr) :
                                      mean \in {FDiv(sum, F(c.cfg.ppr))}})}}) :
              sum \in {FSumTo(row, c.cfg.ppr)}}) :
         row \in {lapRow(c, lapIdx)}})

RECURSIVE voteTo(_, _, _)
\* [votes, bestGlobalScore, bestGlobalOff] after laps 0 .. n-1
voteTo(c, forward, n) ==
  IF n = 0
  THEN [votes |-> [k \in 0 .. (c.cfg.ppr - 1) |-> 0],
        bestGlobalScore |-> FLT_1e30, bestGlobalOff |-> 0]
  ELSE The({IF b.ok
            THEN [votes |-> [r.votes EXCEPT ![b.bestOff] = @ + 1],
                  bestGlobalScore |-> IF FLess(b.bestScore, r.bestGlobalScore)
                                      THEN b.bestScore ELSE r.bestGlobalScore,
                  bestGlobalOff |-> IF FLess(b.bestScore, r.bestGlobalScore)
                                    THEN b.bestOff ELSE r.bestGlobalOff]
            ELSE r :
              r \in {voteTo(c, forward, n - 1)},
              b \in {bestOffsetSingleLap(c, n - 1, forward)}})

RECURSIVE majorityTo(_, _, _)
\* [finalOff, maxVotes] after the scan of votes[0 .. n-1]
majorityTo(votes, bestGlobalOff, n) ==
  IF n = 0 THEN [finalOff |-> bestGlobalOff, maxVotes |-> 0]
  ELSE The({IF votes[n - 1] > r.maxVotes
            THEN [finalOff |-> n - 1, maxVotes |-> votes[n - 1]]
            ELSE r :
              r \in {majorityTo(votes, bestGlobalOff, n - 1)}})

\* the end of finishAlignmentIfReady(): offset written, saved, run closed
storeOffset(c, st, finalOff, score) ==
  The({[cal |-> sv.cal, nvs |-> sv.nvs, ret |-> TRUE,
        bestOffsetOut |-> finalOff, scoreOut |-> score] :
         sv \in {The({save(c1, st) :
                        c1 \in {IF c.modeDir >= 0
                                THEN [c EXCEPT !.offFwd = finalOff, !.alignActive = FALSE]
                                ELSE [c EXCEPT !.offRev = finalOff, !.alignActive = FALSE]}})}})

\* finishAlignmentIfReady(bestOffsetOut, scoreOut): [cal, nvs, ret, bestOffsetOut, scoreOut]
finishAlignmentIfReady(c, st) ==
  IF ~c.alignActive \/ c.alignLap < c.alignTargetN
  THEN [cal |-> c, nvs |-> st, ret |-> FALSE, bestOffsetOut |-> 0, scoreOut |-> F(0)]
  ELSE The({The({storeOffset(c, st, m.finalOff, v.bestGlobalScore) :
                   m \in {majorityTo(v.votes, v.bestGlobalOff, c.cfg.ppr)}}) :
              v \in {voteTo(c, c.modeDir >= 0, c.alignTargetN)}})

(***************************************************************************)
(* EncoderPCNT: the estimator's per-pulse step.  The estimator is the one  *)
(* of part_007; its calls into the calibrator are those of the dual-LUT    *)
(* calibrator (correctDtDir with the estimator's step direction).  rpm is  *)
(* kept in units of 1e6 rpm and omega in units of 2*PI*1e6 rad/s, so both  *)
(* are exact rationals with the sign and the zero of the code's values.    *)
(***************************************************************************)
NewEncoder(cfg) ==
  [cfg |-> cfg, ppr |-> IF cfg.pulsesPerRev > 1 THEN cfg.pulsesPerRev ELSE 1,
   isrCount |-> 0, isrLastUs |-> 0, isrPeriodUs |-> 0,
   sectorIdx |-> 0, stepDir |-> 1,
   periodEmaUs |-> F(0), rpm |-> F(0), omega |-> F(0)]

\* step 4 of _applyPeriodAndCompute: the next sector index
advanceSector(idx, stepDir, ppr) ==
  IF stepDir > 0 THEN (idx + 1) % ppr
  ELSE IF idx = 0 THEN ppr - 1 ELSE idx - 1

\* steps 2 to 4 of _applyPeriodAndCompute for the corrected period dt
emaAndAdvance(e, dt) ==
  The({[(IF FLess(F(0), ema)
         THEN The({[e EXCEPT !.periodEmaUs = ema,
                             !.rpm = FMul(sgn, FMul(F(60), rev)),
                             !.omega = FMul(sgn, rev)] :
                     rev \in {FDiv(F(1), FMul(F(e.ppr), ema))},
                     sgn \in {IF e.cfg.invert THEN F(-1) ELSE F(1)}})
         ELSE [e EXCEPT !.periodEmaUs = ema])
          EXCEPT !.sectorIdx = advanceSector(e.sectorIdx, e.stepDir, e.ppr)] :
         ema \in {IF FLeq(e.periodEmaUs, F(0)) THEN dt
                  ELSE FAdd(FMul(FSub(F(1), e.cfg.alphaPeriod), e.periodEmaUs),
                            FMul(e.cfg.alphaPeriod, dt))}})

\* step 1 of _applyPeriodAndCompute once the calibrator has been fed:
\* fc and fa are what finishCalibrationIfReady and finishAlignmentIfReady returned
applyFinished(e, dt, fc, fa) ==
  The({[enc |-> The({emaAndAdvance(e1, dtc) :
                       dtc \in {correctDtDir(fa.cal, e1.sectorIdx, dt, e1.stepDir)}}),
        cal |-> fa.cal, nvs |-> fa.nvs,
        calDone |-> fc.ret, alignDone |-> fa.ret,
        off |-> fa.bestOffsetOut, score |-> fa.scoreOut] :
         e1 \in {IF fa.ret
                 THEN [e EXCEPT !.sectorIdx = fa.bestOffsetOut,
                                !.periodEmaUs = F(0), !.rpm = F(0), !.omega = F(0)]
                 ELSE e}})

\* _applyPeriodAndCompute(dt_us) with a calibrator attached:
\* [enc, cal, nvs, calDone, alignDone, off, score]
applyPeriodAndCompute(e, c, st, dt) ==
  IF ~(c.calibActive \/ c.alignActive)
  THEN applyFinished(e, dt, [cal |-> c, nvs |-> st, ret |-> FALSE],
                     [cal |-> c, nvs |-> st, ret |-> FALSE,
                      bestOffsetOut |-> 0, scoreOut |-> F(0)])
  ELSE The({The({The({applyFinished(e, dt, fc, fa) :
                        fa \in {IF fc.cal.alignActive
                                THEN finishAlignmentIfReady(fc.cal, fc.nvs)
                                ELSE [cal |-> fc.cal, nvs |-> fc.nvs, ret |-> FALSE,
                                      bestOffsetOut |-> 0, scoreOut |-> F(0)]}}) :
                   fc \in {IF c1.calibActive
                           THEN finishCalibrationIfReady(c1, st)
                           ELSE [cal |-> c1, nvs |-> st, ret |-> FALSE]}}) :
              c1 \in {feedPeriod(c, e.sectorIdx, dt)}})

\* 2^32 modulo n
Pow2_32Mod(n) == ((65536 % n) * (65536 % n)) % n

\* cntSnap - lastConsumed in uint32_t: the difference itself (mag), or, when
\* cntSnap is the smaller, 2^32 - mag
deltaU32(cntSnap, lastCons) ==
  IF cntSnap >= lastCons THEN [wrapped |-> FALSE, mag |-> cntSnap - lastCons]
  ELSE [wrapped |-> TRUE, mag |-> lastCons - cntSnap]

NoPulses == [wrapped |-> FALSE, mag |-> 0]

\* passes of the loop of update() after which no routine of the calibrator
\* can still be active: each lap ends within ppr passes, and the sector index
\* is set back at most once, when an alignment ends
settlePasses(c) ==
  IF c.calibActive \/ c.alignActive THEN c.cfg.ppr * (2 * c.cfg.maxLaps + 1) ELSE 0

\* passes of the loop of update() that are computed one by one.  With no
\* routine active and alphaPeriod = 1 the estimator after a pass depends on
\* the period and the sector index only, so after more than settle + ppr
\* passes it is where it was ppr passes earlier
loopPasses(d, ppr, settle) ==
  IF ~d.wrapped
  THEN (IF d.mag <= settle + ppr THEN d.mag
        ELSE settle + 1 + ((d.mag - settle - 1) % ppr))
  ELSE settle + 1 + ((Pow2_32Mod(ppr) - d.mag - settle - 1) % ppr)

RECURSIVE applyTimes(_, _, _, _, _)
\* n calls of _applyPeriodAndCompute(dt), one after the other, as the first
\* half of them followed by the rest: [enc, cal, nvs]
applyTimes(e, c, st, dt, n) ==
  IF n = 0 THEN [enc |-> e, cal |-> c, nvs |-> st]
  ELSE IF n = 1
  THEN The({[enc |-> r.enc, cal |-> r.cal, nvs |-> r.nvs] :
              r \in {applyPeriodAndCompute(e, c, st, dt)}})
  ELSE The({applyTimes(x.enc, x.cal, x.nvs, dt, n - (n \div 2)) :
              x \in {applyTimes(e, c, st, dt, n \div 2)}})

\* update() from the snapshot on: [enc, cal, nvs, lastConsumed, applied];
\* applied is the number of calls of _applyPeriodAndCompute.  part_007 skips
\* every pass when the snapshot's period is 0, part_000 does not
update(b, e, c, st, lastCons, cntSnap, perSnap, timedOut) ==
  IF cntSnap = lastCons
  THEN [enc |-> IF timedOut
                THEN [e EXCEPT !.rpm = F(0), !.omega = F(0), !.periodEmaUs = F(0)]
                ELSE e,
        cal |-> c, nvs |-> st, lastConsumed |-> lastCons, applied |-> NoPulses]
  ELSE IF b = "part_007" /\ perSnap = 0
  THEN [enc |-> e, cal |-> c, nvs |-> st, lastConsumed |-> cntSnap, applied |-> NoPulses]
  ELSE The({The({[enc |-> r.enc, cal |-> r.cal, nvs |-> r.nvs,
                  lastConsumed |-> cntSnap, applied |-> d] :
                   r \in {applyTimes(e, c, st, F(perSnap), loopPasses(d, e.ppr, settlePasses(c)))}}) :
              d \in {deltaU32(cntSnap, lastCons)}})

\* the minimum-gap window of the ISR: TRUE when the pulse is dropped
gapRejects(b, cfg, lastUs, nowUs) ==
  IF b = "part_007" THEN cfg.minGapUs > 0 /\ lastUs # 0 /\ nowUs - lastUs < cfg.minGapUs
  ELSE cfg.minGapUs # 0 /\ nowUs - lastUs < cfg.minGapUs

\* the ISR's locals and first position once the pulse is accepted: part_007
\* computes the period, then takes _mux and writes last, period, count;
\* part_000 takes no lock and writes count, period, last
isrAccept(b, lastUs, nowUs) ==
  IF b = "part_007"
  THEN [pc |-> "lock", now |-> nowUs, period |-> IF lastUs = 0 THEN 0 ELSE nowUs - lastUs]
  ELSE [pc |-> "count", now |-> nowUs, period |-> 0]

(***************************************************************************)
(* MotorPWM, PIDVel and Wheel.  An operator on the robot takes             *)
(*   r = [build, wheel, enc, cal, nvs, lastConsumed, was, drive]           *)
(* and the wheel it is called on, and gives the robot after the call.      *)
(* Angular speeds (omega references, twist, wheel limits) are in the unit  *)
(* of the estimator's omega, so the PID's error is an exact rational.      *)
(* Fields that only feed the log (_refMag, _measMag, _lastStrongCmdMs,     *)
(* _dbgLastMs) are left out.                                               *)
(***************************************************************************)
FAbs(a) == The({IF FLess(x, F(0)) THEN FNeg(x) ELSE x : x \in {a}})

\* _clamp(x, a, b)
clamp(x, a, b) == IF FLess(x, a) THEN a ELSE IF FLess(b, x) THEN b ELSE x

\* MotorPWM::_clamp1_(x)
clamp1(x) == IF FLess(x, F(-1)) THEN F(-1) ELSE IF FLess(F(1), x) THEN F(1) ELSE x

\* lroundf(x): to the nearest integer, halves away from zero
lroundf(x) ==
  The({IF v[1] >= 0 THEN (2 * v[1] + v[2]) \div (2 * v[2])
       ELSE -((2 * (-v[1]) + v[2]) \div (2 * v[2])) : v \in {x}})

\* MotorPWM after its constructor
NewMotor(cfg) ==
  [cfg |-> cfg, maxDuty |-> 255, dutyIn1 |-> 0, dutyIn2 |-> 0,
   uTarget |-> F(0), uApplied |-> F(0), enabled |-> TRUE]

\* MotorPWM::_neutral_(): both inputs at 0 (coast) or both at full duty (brake)
Motor_neutral(m) ==
  IF m.cfg.neutralMode = "Coast"
  THEN [m EXCEPT !.dutyIn1 = 0, !.dutyIn2 = 0]
  ELSE [m EXCEPT !.dutyIn1 = m.maxDuty, !.dutyIn2 = m.maxDuty]

\* MotorPWM::begin()
Motor_begin(m) ==
  Motor_neutral([m EXCEPT !.maxDuty = 2^m.cfg.resolutionBits - 1,
                          !.uTarget = F(0), !.uApplied = F(0), !.enabled = TRUE])

\* MotorPWM::setEnabled(en)
Motor_setEnabled(m, en) ==
  IF m.enabled = en THEN m
  ELSE IF ~en
  THEN [m EXCEPT !.enabled = FALSE, !.dutyIn1 = 0, !.dutyIn2 = 0, !.uApplied = F(0)]
  ELSE [m EXCEPT !.enabled = TRUE]

\* MotorPWM::setCommand(uSigned)
Motor_setCommand(m, uSigned) ==
  [m EXCEPT !.uTarget = clamp1(IF m.cfg.invert THEN FNeg(uSigned) ELSE uSigned)]

\* MotorPWM::stop()
Motor_stop(m) == Motor_neutral([m EXCEPT !.uTarget = F(0), !.uApplied = F(0)])

\* MotorPWM::_applyDeadbandMin_(x, deadband, minOut)
applyDeadbandMin(x, deadband, minOut) ==
  IF FLess(FAbs(x), deadband) THEN F(0)
  ELSE The({IF FLeq(F(0), x) THEN y ELSE FNeg(y) :
              y \in {FAdd(minOut, FMul(FSub(F(1), minOut), s)) :
                       s \in {clamp(FDiv(FSub(FAbs(x), deadband), FSub(F(1), deadband)),
                                    F(0), F(1))}}})

\* the duty a fraction of the full scale rounds to, never above maxDuty
dutyOf(frac, maxDuty) ==
  The({IF d > maxDuty THEN maxDuty ELSE d : d \in {lroundf(FMul(frac, F(maxDuty)))}})

\* MotorPWM::_applyOutputs_(u)
applyOutputs(m, u) ==
  IF FIsZero(u) THEN Motor_neutral(m)
  ELSE IF m.cfg.driveMode = "SignMagnitude"
  THEN (IF FLess(F(0), u)
        THEN [m EXCEPT !.dutyIn1 = dutyOf(FAbs(u), m.maxDuty), !.dutyIn2 = 0]
        ELSE [m EXCEPT !.dutyIn1 = 0, !.dutyIn2 = dutyOf(FAbs(u), m.maxDuty)])
  ELSE [m EXCEPT !.dutyIn1 = dutyOf(FAdd(FRat(1, 2), FMul(FRat(1, 2), u)), m.maxDuty),
                 !.dutyIn2 = dutyOf(FSub(FRat(1, 2), FMul(FRat(1, 2), u)), m.maxDuty)]

\* MotorPWM::update(dt_s), the slew towards the target
slewTo(m, dt) ==
  IF FLess(F(0), m.cfg.slewRatePerSec) /\ FLess(F(0), dt)
  THEN The({[m EXCEPT !.uApplied =
                IF FLess(maxStep, err) THEN FAdd(@, maxStep)
                ELSE IF FLess(err, FNeg(maxStep)) THEN FSub(@, maxStep)
                ELSE m.uTarget] :
              maxStep \in {FMul(m.cfg.slewRatePerSec, dt)},
              err \in {FSub(m.uTarget, m.uApplied)}})
  ELSE [m EXCEPT !.uApplied = m.uTarget]

\* MotorPWM::update(dt_s)
Motor_update(m, dt) ==
  IF ~m.enabled THEN m
  ELSE The({applyOutputs(m1, applyDeadbandMin(m1.uApplied, m.cfg.deadband, m.cfg.minOutput)) :
              m1 \in {slewTo(m, dt)}})

\* PIDVel::reset(u0)
PID_reset(p, u0) ==
  [p EXCEPT !.e = F(0), !.e1 = F(0), !.e2 = F(0), !.uPrev = u0, !.u = u0]

\* PIDVel after its constructor: _recomputeCoeffs() and reset(0)
NewPID(cfg) ==
  The({[cfg |-> cfg,
        c0 |-> FAdd(cfg.Kp, FDiv(cfg.Kd, Ts)),
        c1 |-> FSub(FAdd(FNeg(cfg.Kp), FMul(cfg.Ki, Ts)), FDiv(FMul(F(2), cfg.Kd), Ts)),
        c2 |-> FDiv(cfg.Kd, Ts),
        e |-> F(0), e1 |-> F(0), e2 |-> F(0), uPrev |-> F(0), u |-> F(0)] :
         Ts \in {IF FLess(FRat(1, 1000000000), cfg.Ts) THEN cfg.Ts ELSE FRat(1, 1000)}})

\* PIDVel::update(refMag, measMag): the controller afterwards; its u is returned
PID_update(p, refMag, measMag) ==
  The({The({[p EXCEPT !.e = e, !.e2 = p.e1, !.e1 = e, !.uPrev = u, !.u = u] :
              u \in {The({IF p.cfg.clampOutput THEN clamp(u_n, p.cfg.uMin, p.cfg.uMax)
                          ELSE u_n :
                            u_n \in {FAdd(FAdd(FAdd(p.uPrev, FMul(p.c0, e)),
                                               FMul(p.c1, p.e1)),
                                          FMul(p.c2, p.e2))}})}}) :
         e \in {FSub(refMag, measMag)}})

(***************************************************************************)
(* PIDVel of part_002: the controller with the two discretizations.  The   *)
(* integral of the PIDF mode is `static float I` inside update(), one word *)
(* for every instance of the class; the operators take and give it next to *)
(* the controller.                                                         *)
(***************************************************************************)
\* PIDVel::_clamp(v, a, b) of part_002
clampV(v, a, b) == IF FLess(v, b) THEN (IF FLess(a, v) THEN v ELSE a) ELSE b

\* the sampling period update() and the coefficients use
TsOf(cfg) == IF FLess(FRat(1, 1000000000), cfg.Ts) THEN cfg.Ts ELSE FRat(1, 1000)

\* PIDVel::_computePI_TustinCoeffs()
computePI_TustinCoeffs(p) ==
  [p EXCEPT !.c0 = FAdd(p.cfg.Kp, FMul(FMul(p.cfg.Ki, TsOf(p.cfg)), FRat(1, 2))),
            !.c1 = FAdd(FNeg(p.cfg.Kp), FMul(FMul(p.cfg.Ki, TsOf(p.cfg)), FRat(1, 2))),
            !.c2 = F(0)]

\* PIDVel::_recomputeInternals()
recomputeInternals(p) ==
  The({IF p1.mode = "PI_Tustin" THEN computePI_TustinCoeffs(p1) ELSE p1 :
         p1 \in {[p EXCEPT !.alpha =
                    IF FLess(F(0), p.cfg.Tf)
                    THEN clamp(FDiv(TsOf(p.cfg), FAdd(p.cfg.Tf, TsOf(p.cfg))), F(0), F(1))
                    ELSE F(1)]}})

\* PIDVel after its constructor
NewPIDVel(cfg) ==
  recomputeInternals(
    [cfg |-> cfg, mode |-> "PI_Tustin", antiWindup |-> FALSE,
     e |-> F(0), e1 |-> F(0), e2 |-> F(0), y |-> F(0), y1 |-> F(0),
     uPid |-> F(0), uSat |-> F(0), dY |-> F(0), dY1 |-> F(0), alpha |-> F(0),
     c0 |-> F(0), c1 |-> F(0), c2 |-> F(0)])

\* PIDVel::setDiscretization(m)
setDiscretization(p, m) == recomputeInternals([p EXCEPT !.mode = m])

\* PIDVel::setAntiWindup(on)
setAntiWindup(p, on) == [p EXCEPT !.antiWindup = on]

\* PIDVel::reset(u0) of part_002
PIDVel_reset(p, u0) ==
  [p EXCEPT !.e = F(0), !.e1 = F(0), !.e2 = F(0), !.y = F(0), !.y1 = F(0),
            !.dY = F(0), !.dY1 = F(0),
            !.uPid = clampV(u0, p.cfg.uMin, p.cfg.uMax),
            !.uSat = clampV(u0, p.cfg.uMin, p.cfg.uMax)]

\* update(r, y) in PI_Tustin mode, up to the common shifts
updatePI(p, e) ==
  The({[p EXCEPT !.uPid = u, !.uSat = clampV(u, p.cfg.uMin, p.cfg.uMax)] :
         u \in {The({IF p.antiWindup /\ FLess(u1, p.cfg.uMin) /\ FLess(e, F(0))
                     THEN p.cfg.uMin ELSE u1 :
                       u1 \in {IF p.antiWindup /\ FLess(p.cfg.uMax, u0) /\ FLess(F(0), e)
                               THEN p.cfg.uMax ELSE u0 :
                                 u0 \in {FAdd(FAdd(p.uPid, FMul(p.c0, e)),
                                              FMul(p.c1, p.e1))}}})}})

\* update(r, y) in PIDF_Tustin mode, up to the common shifts: [pid, I]
updatePIDF(p, I, e) ==
  The({The({IF p.antiWindup
               /\ (\/ FLeq(FSub(p.cfg.uMax, FRat(1, 1000000)), FAdd(FAdd(P, I), D))
                      /\ FLess(F(0), e)
                   \/ FLeq(FAdd(FAdd(P, I), D), FAdd(p.cfg.uMin, FRat(1, 1000000)))
                      /\ FLess(e, F(0)))
            THEN [pid |-> [p EXCEPT !.uPid = FAdd(FAdd(P, I), D),
                                    !.uSat = clampV(FAdd(FAdd(P, I), D),
                                                    p.cfg.uMin, p.cfg.uMax),
                                    !.dY1 = dY],
                  I |-> I]
            ELSE [pid |-> [p EXCEPT !.uPid = FAdd(FAdd(P, Ic), D),
                                    !.uSat = clampV(FAdd(FAdd(P, Ic), D),
                                                    p.cfg.uMin, p.cfg.uMax),
                                    !.dY1 = dY],
                  I |-> Ic] :
              P \in {FMul(p.cfg.Kp, e)},
              D \in {IF FLess(F(0), p.cfg.Tf) \/ FLess(p.alpha, F(1))
                     THEN FNeg(FDiv(FMul(p.cfg.Kd, dY), TsOf(p.cfg))) ELSE F(0)},
              Ic \in {FAdd(I, FMul(FMul(p.cfg.Ki, FMul(TsOf(p.cfg), FRat(1, 2))),
                                   FAdd(e, p.e1)))}}) :
         dY \in {FAdd(FMul(FSub(F(1), p.alpha), p.dY1),
                      FMul(p.alpha, FSub(p.y, p.y1)))}})

\* PIDVel::update(r, y) of part_002 with the static I: [pid, I]; the
\* controller's uSat is returned
PIDVel_update(p, I, r, y) ==
  The({The({[pid |-> [u.pid EXCEPT !.e2 = p.e1, !.e1 = p0.e, !.y1 = y], I |-> u.I] :
              u \in {IF p.mode = "PI_Tustin"
                     THEN [pid |-> updatePI(p0, p0.e), I |-> I]
                     ELSE updatePIDF(p0, I, p0.e)}}) :
         p0 \in {[p EXCEPT !.y = y, !.e = FSub(r, y)]}})

\* Wheel after its constructor
NewWheel(cfg) ==
  [cfg |-> cfg, omegaRef |-> F(0), refSign |-> 1, lastRefSign |-> 1,
   assistMode |-> "AssistNone", assistPrevU |-> F(0), dir |-> 1, routineDir |-> 1,
   motor |-> NewMotor(cfg.motor), pid |-> NewPID(cfg.pid)]

\* EncoderPCNT::setStepDirection(dir)
setStepDirection(e, dir) == [e EXCEPT !.stepDir = IF dir >= 0 THEN 1 ELSE -1]

\* a setOmegaRef that keeps the PID state over a change of sign
setOmegaRef_noReset(r, w, omega) ==
  The({[r EXCEPT !.wheel[w] =
          [x EXCEPT !.omegaRef = omega, !.refSign = sgn, !.lastRefSign = sgn]] :
         x \in {r.wheel[w]}, sgn \in {IF FLeq(F(0), omega) THEN 1 ELSE -1}})

\* Wheel::setOmegaRef(omega_ref_signed)
setOmegaRef(r, w, omega) ==
  The({[r EXCEPT !.wheel[w] =
          IF sgn # x.lastRefSign
          THEN [x EXCEPT !.omegaRef = omega, !.refSign = sgn,
                         !.pid = PID_reset(x.pid, F(0)), !.lastRefSign = sgn]
          ELSE [x EXCEPT !.omegaRef = omega, !.refSign = sgn]] :
         x \in {r.wheel[w]}, sgn \in {IF FLeq(F(0), omega) THEN 1 ELSE -1}})

\* Wheel::_assistBegin_(isCal, dir)
assistBegin(r, w, isCal, dir) ==
  The({[r EXCEPT !.wheel[w] =
                   [x EXCEPT !.assistPrevU = x.motor.uTarget,
                             !.assistMode = IF isCal THEN "AssistCal" ELSE "AssistAlign",
                             !.motor = Motor_setCommand(x.motor,
                                         IF dir >= 0 THEN x.cfg.assistU
                                                     ELSE FNeg(x.cfg.assistU))],
                 !.enc[w] = setStepDirection(r.enc[w], dir)] :
         x \in {r.wheel[w]}})

\* Wheel::startCalibration(lapsN): the return value
Wheel_startCalibrationOk(r, w, lapsN) ==
  /\ ~(lapsN = 0 \/ lapsN > r.wheel[w].cfg.cal.maxLaps)
  /\ startCalibrationDirOk(r.cal[w], lapsN)

\* Wheel::startCalibration(lapsN): the robot afterwards
Wheel_startCalibration(r, w, lapsN) ==
  IF lapsN = 0 \/ lapsN > r.wheel[w].cfg.cal.maxLaps THEN r
  ELSE The({The({IF ~startCalibrationDirOk(r.cal[w], lapsN) THEN r1
                 ELSE The({IF r.wheel[w].cfg.assistOnBoot
                           THEN assistBegin(r2, w, TRUE, dir) ELSE r2 :
                             r2 \in {[r1 EXCEPT !.enc[w] = setStepDirection(@, dir)]}}) :
                   r1 \in {[r EXCEPT !.wheel[w].routineDir = dir,
                                     !.cal[w] = startCalibrationDir(@, lapsN, dir)]}}) :
              dir \in {r.wheel[w].dir}})

\* Wheel::startAlignment that records the routine direction before it checks
\* the pattern
Wheel_startAlignment_dirFirst(r, w, lapsN) ==
  IF lapsN = 0 \/ lapsN > r.wheel[w].cfg.cal.maxLaps THEN r
  ELSE The({The({IF ~startAlignmentDirOk(r.cal[w], lapsN, dir) THEN r1
                 ELSE The({IF r.wheel[w].cfg.assistOnBoot
                           THEN assistBegin(r2, w, FALSE, dir) ELSE r2 :
                             r2 \in {[r1 EXCEPT !.enc[w] = setStepDirection(@, dir)]}}) :
                   r1 \in {[r EXCEPT !.wheel[w].routineDir = dir,
                                     !.cal[w] = startAlignmentDir(@, lapsN, dir)]}}) :
              dir \in {r.wheel[w].dir}})

\* Wheel::startAlignment(lapsN): the return value
Wheel_startAlignmentOk(r, w, lapsN) ==
  /\ ~(lapsN = 0 \/ lapsN > r.wheel[w].cfg.cal.maxLaps)
  /\ IF r.wheel[w].dir >= 0 THEN r.cal[w].patFwdReady ELSE r.cal[w].patRevReady
  /\ startAlignmentDirOk(r.cal[w], lapsN, r.wheel[w].dir)

\* Wheel::startAlignment(lapsN): the robot afterwards
Wheel_startAlignment(r, w, lapsN) ==
  IF lapsN = 0 \/ lapsN > r.wheel[w].cfg.cal.maxLaps THEN r
  ELSE IF ~(IF r.wheel[w].dir >= 0 THEN r.cal[w].patFwdReady ELSE r.cal[w].patRevReady)
  THEN r
  ELSE The({The({IF ~startAlignmentDirOk(r.cal[w], lapsN, dir) THEN r1
                 ELSE The({IF r.wheel[w].cfg.assistOnBoot
                           THEN assistBegin(r2, w, FALSE, dir) ELSE r2 :
                             r2 \in {[r1 EXCEPT !.enc[w] = setStepDirection(@, dir)]}}) :
                   r1 \in {[r EXCEPT !.wheel[w].routineDir = dir,
                                     !.cal[w] = startAlignmentDir(@, lapsN, dir)]}}) :
              dir \in {r.wheel[w].dir}})

\* Wheel::_maybeAutoAlignOnBoot_()
maybeAutoAlignOnBoot(r, w) ==
  IF ~r.wheel[w].cfg.autoAlignOnBoot THEN r
  ELSE The({IF (IF dir >= 0 THEN r.cal[w].useFwd ELSE r.cal[w].useRev)
               /\ (IF dir >= 0 THEN r.cal[w].patFwdReady ELSE r.cal[w].patRevReady)
               /\ startAlignmentDirOk(r.cal[w], r.wheel[w].cfg.alignLapsBoot, dir)
            THEN The({IF r.wheel[w].cfg.assistOnBoot
                      THEN assistBegin(r1, w, FALSE, dir) ELSE r1 :
                        r1 \in {[r EXCEPT
                                   !.cal[w] = startAlignmentDir(@, r.wheel[w].cfg.alignLapsBoot, dir),
                                   !.wheel[w].routineDir = dir,
                                   !.enc[w] = setStepDirection(@, dir)]}})
            ELSE r :
              dir \in {r.wheel[w].dir}})

\* Wheel::begin(): load the calibrator, start the estimator and the motor,
\* and align on boot if configured
Wheel_begin(r, w) ==
  The({maybeAutoAlignOnBoot(r1, w) :
         r1 \in {[r EXCEPT !.cal[w] = load(@, r.nvs[w]),
                           !.enc[w] = [@ EXCEPT !.periodEmaUs = F(0), !.rpm = F(0),
                                                !.omega = F(0), !.sectorIdx = 0,
                                                !.stepDir = 1],
                           !.wheel[w].motor = Motor_begin(@)]}})

\* Wheel::_applyDirectionLogic_(): the direction follows the applied command
applyDirectionLogic(r, w) ==
  The({IF FLess(r.wheel[w].cfg.dirEpsU, FAbs(uA))
       THEN The({IF s # r.wheel[w].dir
                 THEN [r EXCEPT !.wheel[w].dir = s,
                                !.enc[w] = setStepDirection(@, s)]
                 ELSE r :
                   s \in {IF FLeq(F(0), uA) THEN 1 ELSE -1}})
       ELSE r :
         uA \in {r.wheel[w].motor.uApplied}})

\* Wheel::_assistTrackEnd_(): wasCal and wasAlign are statics of the function,
\* one pair for every Wheel
assistTrackEnd(r, w) ==
  The({The({The({[r2 EXCEPT !.was = [wasCal |-> isCal, wasAlign |-> isAlign]] :
                   r2 \in {IF r1.wheel[w].assistMode = "AssistAlign" /\ r.was.wasAlign /\ ~isAlign
                           THEN [r1 EXCEPT !.wheel[w].motor =
                                             Motor_setCommand(@, r1.wheel[w].assistPrevU),
                                           !.wheel[w].assistMode = "AssistNone"]
                           ELSE r1}}) :
              r1 \in {IF r.wheel[w].assistMode = "AssistCal" /\ r.was.wasCal /\ ~isCal
                      THEN [r EXCEPT !.wheel[w].motor =
                                       Motor_setCommand(@, r.wheel[w].assistPrevU),
                                     !.wheel[w].assistMode = "AssistNone"]
                      ELSE r}}) :
         isCal \in {r.cal[w].calibActive}, isAlign \in {r.cal[w].alignActive}})

\* EncoderPCNT::update(dt_s) of wheel w, on the snapshot of the three words
\* the ISR has left
Enc_update(r, w, timedOut) ==
  The({[r EXCEPT !.enc[w] = u.enc, !.cal[w] = u.cal, !.nvs[w] = u.nvs,
                 !.lastConsumed = u.lastConsumed] :
         u \in {update(r.build, r.enc[w], r.cal[w], r.nvs[w], r.lastConsumed,
                       r.enc[w].isrCount, r.enc[w].isrPeriodUs, timedOut)}})

\* Wheel::update, step 4 and 5: the PID on the magnitudes, its output sent
\* to the motor with the sign of the reference
pidToMotor(r, w) ==
  The({[r EXCEPT !.wheel[w].pid = p,
                 !.wheel[w].motor =
                   Motor_setCommand(@, IF r.wheel[w].refSign >= 0 THEN p.u ELSE FNeg(p.u))] :
         p \in {PID_update(r.wheel[w].pid, FAbs(r.wheel[w].omegaRef), r.enc[w].omega)}})

\* Wheel::update(dt_s)
Wheel_update(r, w, dt, timedOut) ==
  The({The({The({assistTrackEnd(r3, w) : r3 \in {pidToMotor(r2, w)}}) :
              r2 \in {IF r1.cal[w].calibActive \/ r1.cal[w].alignActive
                      THEN [r1 EXCEPT !.enc[w] = setStepDirection(@, r1.wheel[w].routineDir)]
                      ELSE applyDirectionLogic(r1, w)}}) :
         r1 \in {[x EXCEPT !.wheel[w].motor = Motor_update(@, dt)] :
                   x \in {Enc_update(r, w, timedOut)}}})

(***************************************************************************)
(* DifferentialDrive                                                       *)
(***************************************************************************)
\* DifferentialDrive after its constructor
NewDrive(cfg) ==
  [cfg |-> cfg, vRef |-> F(0), wRef |-> F(0), vCmd |-> F(0), wCmd |-> F(0),
   omegaR_cmd |-> F(0), omegaL_cmd |-> F(0),
   coordState |-> "CoordIdle", coordLaps |-> 0, coordW |-> F(0)]

isCoordinatedRoutineRunning(d) == d.coordState # "CoordIdle"

\* Wheel::patternReady()
patternReady(c) == c.patFwdReady \/ c.patRevReady

\* Wheel::useLUT()
useLUT(c) == c.useFwd \/ c.useRev

\* one ramp of _applyLimitsAndRamps_: cmd moves towards ref by at most accMax * dt
rampTo(cmd, ref, accMax, dt) ==
  IF FLess(F(0), accMax)
  THEN The({IF FLess(dMax, dv) THEN FAdd(cmd, dMax)
            ELSE IF FLess(dv, FNeg(dMax)) THEN FSub(cmd, dMax)
            ELSE ref :
              dMax \in {FMul(accMax, dt)}, dv \in {FSub(ref, cmd)}})
  ELSE ref

\* DifferentialDrive::_applyLimitsAndRamps_(dt)
applyLimitsAndRamps(d, dt) ==
  The({IF d.cfg.clampTwist
       THEN [d EXCEPT !.vCmd = clamp(v, FNeg(d.cfg.vMax), d.cfg.vMax),
                      !.wCmd = clamp(w, FNeg(d.cfg.wMax), d.cfg.wMax)]
       ELSE [d EXCEPT !.vCmd = v, !.wCmd = w] :
         v \in {rampTo(d.vCmd, d.vRef, d.cfg.vAccMax, dt)},
         w \in {rampTo(d.wCmd, d.wRef, d.cfg.wAccMax, dt)}})

\* DifferentialDrive::_computeWheelOmegasFromTwist_(v, w, wR, wL): <<wR, wL>>
computeWheelOmegasFromTwist(cfg, v, w) ==
  The({<<FDiv(FAdd(v, FMul(halfL, w)), rr), FDiv(FSub(v, FMul(halfL, w)), rr)>> :
         rr \in {IF FLess(FRat(1, 1000000000), cfg.wheelRadius) THEN cfg.wheelRadius
                 ELSE FRat(1, 1000)},
         halfL \in {FMul(FRat(1, 2), cfg.trackWidth)}})

\* the twist and the wheel omegas of the drive set from the commanded twist
withWheelOmegas(d) ==
  The({[d EXCEPT !.omegaR_cmd = o[1], !.omegaL_cmd = o[2]] :
         o \in {computeWheelOmegasFromTwist(d.cfg, d.vCmd, d.wCmd)}})

\* a drive that never rescales its twist
maybeRescale_never(d) == d

\* DifferentialDrive::_maybeRescaleToWheelLimit_(v, w, wR, wL) on the drive's
\* own _vCmd, _wCmd, _omegaR_cmd, _omegaL_cmd
maybeRescaleToWheelLimit(d) ==
  The({IF FLeq(aMax, d.cfg.omegaWheelMax) \/ FLeq(d.cfg.omegaWheelMax, F(0)) THEN d
       ELSE The({withWheelOmegas([d EXCEPT !.vCmd = FMul(@, k), !.wCmd = FMul(@, k)]) :
                   k \in {FDiv(d.cfg.omegaWheelMax, aMax)}}) :
         aMax \in {The({IF FLess(aL, aR) THEN aR ELSE aL :
                          aR \in {FAbs(d.omegaR_cmd)}, aL \in {FAbs(d.omegaL_cmd)}})}})

\* DifferentialDrive::setTwist while no coordinated routine runs
setTwist_always(r, v, w) ==
  [r EXCEPT !.drive = IF r.drive.cfg.clampTwist
                      THEN [@ EXCEPT !.vRef = clamp(v, FNeg(r.drive.cfg.vMax), r.drive.cfg.vMax),
                                     !.wRef = clamp(w, FNeg(r.drive.cfg.wMax), r.drive.cfg.wMax)]
                      ELSE [@ EXCEPT !.vRef = v, !.wRef = w]]

\* DifferentialDrive::setTwist(v_mps, w_radps)
setTwist(r, v, w) ==
  IF isCoordinatedRoutineRunning(r.drive) THEN r
  ELSE [r EXCEPT !.drive = IF r.drive.cfg.clampTwist
                           THEN [@ EXCEPT !.vRef = clamp(v, FNeg(r.drive.cfg.vMax), r.drive.cfg.vMax),
                                          !.wRef = clamp(w, FNeg(r.drive.cfg.wMax), r.drive.cfg.wMax)]
                           ELSE [@ EXCEPT !.vRef = v, !.wRef = w]]

\* DifferentialDrive::stop()
stop(r) == setTwist(r, F(0), F(0))

\* _coordExit_() that leaves the commanded twist as it is
coordExit_keepCmd(r) ==
  The({The({[r2 EXCEPT !.drive = [@ EXCEPT !.vRef = F(0), !.wRef = F(0)]] :
              r2 \in {setOmegaRef(setOmegaRef(r1, "R", F(0)), "L", F(0))}}) :
         r1 \in {[r EXCEPT !.drive = [@ EXCEPT !.coordState = "CoordIdle",
                                               !.coordLaps = 0, !.coordW = F(0)]]}})

\* DifferentialDrive::_coordExit_()
coordExit(r) ==
  The({The({[r2 EXCEPT !.drive = [@ EXCEPT !.vCmd = F(0), !.wCmd = F(0),
                                           !.vRef = F(0), !.wRef = F(0)]] :
              r2 \in {setOmegaRef(setOmegaRef(r1, "R", F(0)), "L", F(0))}}) :
         r1 \in {[r EXCEPT !.drive = [@ EXCEPT !.coordState = "CoordIdle",
                                               !.coordLaps = 0, !.coordW = F(0)]]}})

\* DifferentialDrive::_coordEnter_(st, laps, w_assist)
coordEnter(r, st, laps, w_assist) ==
  The({IF st = "CoordAlignR"
       THEN (IF ~patternReady(r1.cal["R"])
             THEN [r1 EXCEPT !.drive.coordState = "CoordIdle"]
             ELSE Wheel_startAlignment(r1, "R", laps))
       ELSE IF st = "CoordAlignL"
       THEN (IF ~patternReady(r1.cal["L"])
             THEN [r1 EXCEPT !.drive.coordState = "CoordIdle"]
             ELSE Wheel_startAlignment(r1, "L", laps))
       ELSE IF st = "CoordCalibR" THEN Wheel_startCalibration(r1, "R", laps)
       ELSE IF st = "CoordCalibL" THEN Wheel_startCalibration(r1, "L", laps)
       ELSE r1 :
         r1 \in {[r EXCEPT !.drive = [@ EXCEPT !.coordState = st, !.coordLaps = laps,
                                               !.coordW = FAbs(w_assist)]]}})

\* DifferentialDrive::startCoordinatedAlignment(lapsN, w_assist): the return value
startCoordinatedAlignmentOk(r, lapsN, w_assist) ==
  /\ ~isCoordinatedRoutineRunning(r.drive)
  /\ lapsN # 0
  /\ patternReady(r.cal["R"]) \/ patternReady(r.cal["L"])

\* DifferentialDrive::startCoordinatedAlignment(lapsN, w_assist): the robot afterwards
startCoordinatedAlignment(r, lapsN, w_assist) ==
  IF isCoordinatedRoutineRunning(r.drive) \/ lapsN = 0 THEN r
  ELSE The({IF patternReady(r.cal["R"]) THEN coordEnter(r, "CoordAlignR", lapsN, wa)
            ELSE IF patternReady(r.cal["L"]) THEN coordEnter(r, "CoordAlignL", lapsN, wa)
            ELSE r :
              wa \in {IF FLeq(w_assist, F(0)) THEN r.drive.cfg.alignAssistW ELSE w_assist}})

\* DifferentialDrive::startCoordinatedCalibration(lapsN, w_assist): the return value
startCoordinatedCalibrationOk(r, lapsN, w_assist) ==
  ~isCoordinatedRoutineRunning(r.drive) /\ lapsN # 0

\* DifferentialDrive::startCoordinatedCalibration(lapsN, w_assist): the robot afterwards
startCoordinatedCalibration(r, lapsN, w_assist) ==
  IF isCoordinatedRoutineRunning(r.drive) \/ lapsN = 0 THEN r
  ELSE coordEnter(r, "CoordCalibR", lapsN,
                  IF FLeq(w_assist, F(0)) THEN r.drive.cfg.calibAssistW ELSE w_assist)

\* DifferentialDrive::abortCoordinatedRoutine()
abortCoordinatedRoutine(r) ==
  IF ~isCoordinatedRoutineRunning(r.drive) THEN r ELSE coordExit(r)

\* both wheels are given their omega references and updated, right then left
updateWheels(r, dt, timedOut) ==
  The({The({The({Wheel_update(r3, "L", dt, timedOut["L"]) :
                   r3 \in {Wheel_update(r2, "R", dt, timedOut["R"])}}) :
              r2 \in {setOmegaRef(r1, "L", r.drive.omegaL_cmd)}}) :
         r1 \in {setOmegaRef(r, "R", r.drive.omegaR_cmd)}})

\* step 4 of _coordUpdate_ that goes from the right wheel's phase straight to Idle
coordAdvance_skipLeft(r) ==
  IF r.drive.coordState = "CoordAlignR"
  THEN (IF ~r.cal["R"].alignActive THEN coordExit(r) ELSE r)
  ELSE IF r.drive.coordState = "CoordAlignL"
  THEN (IF ~r.cal["L"].alignActive THEN coordExit(r) ELSE r)
  ELSE IF r.drive.coordState = "CoordCalibR"
  THEN (IF ~r.cal["R"].calibActive THEN coordExit(r) ELSE r)
  ELSE IF r.drive.coordState = "CoordCalibL"
  THEN (IF ~r.cal["L"].calibActive THEN coordExit(r) ELSE r)
  ELSE coordExit(r)

\* step 4 of _coordUpdate_: the end of the phase and the next one
coordAdvance(r) ==
  IF r.drive.coordState = "CoordAlignR"
  THEN (IF ~r.cal["R"].alignActive
        THEN (IF patternReady(r.cal["L"])
              THEN coordEnter(r, "CoordAlignL", r.drive.coordLaps, r.drive.coordW)
              ELSE coordExit(r))
        ELSE r)
  ELSE IF r.drive.coordState = "CoordAlignL"
  THEN (IF ~r.cal["L"].alignActive THEN coordExit(r) ELSE r)
  ELSE IF r.drive.coordState = "CoordCalibR"
  THEN (IF ~r.cal["R"].calibActive
        THEN coordEnter(r, "CoordCalibL", r.drive.coordLaps, r.drive.coordW)
        ELSE r)
  ELSE IF r.drive.coordState = "CoordCalibL"
  THEN (IF ~r.cal["L"].calibActive THEN coordExit(r) ELSE r)
  ELSE coordExit(r)

\* DifferentialDrive::_coordUpdate_(dt)
coordUpdate(r, dt, timedOut) ==
  The({The({coordAdvance(r2) : r2 \in {updateWheels(r1, dt, timedOut)}}) :
         r1 \in {[r EXCEPT !.drive =
                    withWheelOmegas(applyLimitsAndRamps(
                      [r.drive EXCEPT
                         !.vRef = F(0),
                         !.wRef = IF r.drive.coordState \in {"CoordAlignR", "CoordCalibR"}
                                  THEN r.drive.coordW
                                  ELSE IF r.drive.coordState \in {"CoordAlignL", "CoordCalibL"}
                                  THEN FNeg(r.drive.coordW)
                                  ELSE F(0)], dt))]}})

\* DifferentialDrive::update(dt_s)
Drive_update(r, dt, timedOut) ==
  IF isCoordinatedRoutineRunning(r.drive) THEN coordUpdate(r, dt, timedOut)
  ELSE The({updateWheels(r1, dt, timedOut) :
              r1 \in {[r EXCEPT !.drive =
                         The({IF FLess(F(0), d.cfg.omegaWheelMax) /\ d.cfg.rescaleTwistToWheelLimit
                              THEN maybeRescaleToWheelLimit(d) ELSE d :
                                d \in {withWheelOmegas(applyLimitsAndRamps(r.drive, dt))}})]}})

\* DifferentialDrive::begin()
Drive_begin(r) ==
  The({IF r1.drive.cfg.autoCoordinatedAlignOnBoot
          /\ ((useLUT(r1.cal["R"]) /\ patternReady(r1.cal["R"]))
              \/ (useLUT(r1.cal["L"]) /\ patternReady(r1.cal["L"])))
       THEN startCoordinatedAlignment(r1, r1.drive.cfg.alignLapsBoot, r1.drive.cfg.alignAssistW)
       ELSE r1 :
         r1 \in {Wheel_begin(Wheel_begin(r, "R"), "L")}})

(***************************************************************************)
(* State                                                                   *)
(***************************************************************************)
VARIABLES
  cal,          \* [wheel -> SectorCalibrator object]
  nvs,          \* [wheel -> persistent store of the wheel's namespace]
  enc,          \* [wheel -> EncoderPCNT object]
  script,       \* scripted period samples still to come (scenario runs)
  ret,          \* the last operation called and what it returned
  runs,         \* [wheel -> routines started so far]
  lastSaved,    \* [wheel -> the calibrator as the last save() left it]
  build,        \* which EncoderPCNT.cpp is compiled: "part_007" or "part_000"
  mux,          \* [wheel -> holder of the estimator's _mux]
  isr,          \* [wheel -> the pulse ISR's position and locals]
  task,         \* the control task's position in update() and its locals
  lastConsumed, \* the static local of EncoderPCNT::update
  hist,         \* history: triples left by whole ISR invocations, past snapshots
  wheel,        \* [wheel -> Wheel object: references, assist, direction, motor, PID]
  drive,        \* the DifferentialDrive object
  was,          \* the statics wasCal, wasAlign of Wheel::_assistTrackEnd_
  call,         \* the last call on a wheel or on the drive: arguments, return value
  given         \* history: [wheel -> direction given at the last start of each routine]

vars == <<cal, nvs, enc, script, ret, runs, lastSaved,
          build, mux, isr, task, lastConsumed, hist,
          wheel, drive, was, call, given>>

\* what the wheels and the drive add to the state
drvVars == <<wheel, drive, was, call, given>>

\* what the pulse capture and update() add to the state
encVars == <<build, mux, isr, task, lastConsumed, hist>>

CalCfg == [ppr |-> PPR, maxLaps |-> MaxLaps, useLUTByDefault |-> TRUE]

EncCfg == [pulsesPerRev |-> PPR, invert |-> FALSE, minGapUs |-> 0,
           alphaPeriod |-> F(1)]

NoScript == [on |-> FALSE, tape |-> <<>>]

RetNone ==
  [op |-> "begin", w |-> "R", ok |-> FALSE, calDone |-> FALSE,
   alignDone |-> FALSE, off |-> 0, score |-> F(0), val |-> F(0),
   k |-> 0, dt |-> F(0), dir |-> 1]

\* MotorPWM::Config with the header's numbers
MotorCfg ==
  [invert |-> FALSE, deadband |-> FRat(1, 50), minOutput |-> FRat(2, 25),
   slewRatePerSec |-> F(0), neutralMode |-> "Coast", driveMode |-> "SignMagnitude",
   resolutionBits |-> 8]

\* MotorPWM::Config, PIDVel::Config (a proportional controller) and
\* Wheel::Config with the header's assist and direction thresholds
WheelCfg(autoAlign) ==
  [motor |-> MotorCfg,
   cal |-> CalCfg,
   pid |-> [Kp |-> F(1), Ki |-> F(0), Kd |-> F(0), Ts |-> FRat(1, 100),
            uMin |-> F(0), uMax |-> F(1), clampOutput |-> TRUE],
   assistOnBoot |-> TRUE, assistU |-> FRat(1, 2), dirEpsU |-> FRat(1, 20),
   autoAlignOnBoot |-> autoAlign, alignLapsBoot |-> 3]

\* DifferentialDrive::Config with the header's numbers
DriveCfg(autoAlign) ==
  [wheelRadius |-> FRat(1, 20), trackWidth |-> FRat(1, 5),
   vMax |-> FRat(4, 5), wMax |-> F(6), vAccMax |-> FRat(3, 2), wAccMax |-> F(10),
   clampTwist |-> TRUE, omegaWheelMax |-> F(120), rescaleTwistToWheelLimit |-> TRUE,
   autoCoordinatedAlignOnBoot |-> autoAlign, alignLapsBoot |-> 3,
   alignAssistW |-> F(2), calibAssistW |-> F(2)]

NoCall == [op |-> "constructed", wheel |-> "R", lapsN |-> 0, dir |-> 1,
           v |-> F(0), w |-> F(0), ok |-> FALSE, from |-> "CoordIdle", n |-> 0,
           nowUs |-> 0]

NotGiven == [w \in Wheels |-> [calib |-> 1, align |-> 1]]

\* wheels and drive as constructed, nothing called on them
InitParked ==
  /\ wheel = [w \in Wheels |-> NewWheel(WheelCfg(TRUE))]
  /\ drive = NewDrive(DriveCfg(TRUE))
  /\ was = [wasCal |-> FALSE, wasAlign |-> FALSE]
  /\ call = NoCall
  /\ given = NotGiven

NeverSaved(c) == [valid |-> FALSE, cal |-> c]

\* period samples the next pulse may carry
NextPeriods == IF script.on THEN (IF script.tape = <<>> THEN {} ELSE {Head(script.tape)})
               ELSE {F(p) : p \in PeriodSamples}

\* the ISR between pulses
IsrIdle == [pc |-> "idle", now |-> 0, period |-> 0]

\* the control task about to call update() of wheel w
TaskAt(w) == [pc |-> "lock", w |-> w, cntSnap |-> 0, perSnap |-> 0, lastUsSnap |-> 0]

\* pulse capture and control task after begin(), for the given EncoderPCNT.cpp
InitCapture(b) ==
  /\ build = b
  /\ mux = [w \in Wheels |-> "free"]
  /\ isr = [w \in Wheels |-> IsrIdle]
  /\ task = TaskAt("R")
  /\ lastConsumed = 0
  /\ hist = [triples   |-> [w \in Wheels |-> {<<0, 0, 0>>}],
             prevCount |-> [w \in Wheels |-> 0],
             applied   |-> NoPulses,
             zeroed    |-> [w \in Wheels |-> FALSE]]

(***************************************************************************)
(* Operations on one wheel                                                 *)
(***************************************************************************)
\* SectorCalibrator::startCalibrationDir(lapsN, dir), one run per behaviour
StartCalibration(w, lapsN, dir) ==
  /\ runs[w] = 0
  /\ cal' = [cal EXCEPT ![w] = startCalibrationDir(@, lapsN, dir)]
  /\ enc' = [enc EXCEPT ![w].stepDir = IF startCalibrationDirOk(cal[w], lapsN)
                                       THEN (IF dir >= 0 THEN 1 ELSE -1) ELSE @]
  /\ runs' = [runs EXCEPT ![w] = IF startCalibrationDirOk(cal[w], lapsN) THEN @ + 1 ELSE @]
  /\ ret' = [RetNone EXCEPT !.op = "startCalibration", !.w = w,
                            !.ok = startCalibrationDirOk(cal[w], lapsN)]
  /\ UNCHANGED <<nvs, script, lastSaved>>
  /\ UNCHANGED encVars
  /\ UNCHANGED drvVars

\* SectorCalibrator::startAlignmentDir(lapsN, dir), one run per behaviour
StartAlignment(w, lapsN, dir) ==
  /\ runs[w] = 0
  /\ cal' = [cal EXCEPT ![w] = startAlignmentDir(@, lapsN, dir)]
  /\ enc' = [enc EXCEPT ![w].stepDir = IF startAlignmentDirOk(cal[w], lapsN, dir)
                                       THEN (IF dir >= 0 THEN 1 ELSE -1) ELSE @]
  /\ runs' = [runs EXCEPT ![w] = IF startAlignmentDirOk(cal[w], lapsN, dir) THEN @ + 1 ELSE @]
  /\ ret' = [RetNone EXCEPT !.op = "startAlignment", !.w = w, !.dir = dir,
                            !.ok = startAlignmentDirOk(cal[w], lapsN, dir)]
  /\ UNCHANGED <<nvs, script, lastSaved>>
  /\ UNCHANGED encVars
  /\ UNCHANGED drvVars

\* EncoderPCNT::_applyPeriodAndCompute(dt) while a routine is active
ApplyPeriod(w, dt) ==
  /\ cal[w].calibActive \/ cal[w].alignActive
  /\ \E r \in {applyPeriodAndCompute(enc[w], cal[w], nvs[w], dt)} :
         /\ cal' = [cal EXCEPT ![w] = r.cal]
         /\ nvs' = [nvs EXCEPT ![w] = r.nvs]
         /\ enc' = [enc EXCEPT ![w] = r.enc]
         /\ ret' = [RetNone EXCEPT !.op = "applyPeriod", !.w = w,
                                   !.calDone = r.calDone, !.alignDone = r.alignDone,
                                   !.off = r.off, !.score = r.score,
                                   !.k = enc[w].sectorIdx, !.dt = dt]
         /\ lastSaved' = IF r.calDone \/ r.alignDone
                         THEN [lastSaved EXCEPT ![w] = [valid |-> TRUE, cal |-> r.cal]]
                         ELSE lastSaved
  /\ script' = IF script.on THEN [script EXCEPT !.tape = Tail(@)] ELSE script
  /\ UNCHANGED runs
  /\ UNCHANGED encVars
  /\ UNCHANGED drvVars

\* SectorCalibrator::load()
Load(w) ==
  /\ cal' = [cal EXCEPT ![w] = load(@, nvs[w])]
  /\ ret' = [RetNone EXCEPT !.op = "load", !.w = w]
  /\ UNCHANGED <<nvs, enc, script, runs, lastSaved>>
  /\ UNCHANGED encVars
  /\ UNCHANGED drvVars

\* a restart: the calibrator is constructed again and load() is called
PowerCycle(w) ==
  /\ cal' = [cal EXCEPT ![w] = load(NewCalibrator(@.cfg), nvs[w])]
  /\ ret' = [RetNone EXCEPT !.op = "powerCycle", !.w = w]
  /\ UNCHANGED <<nvs, enc, script, runs, lastSaved>>
  /\ UNCHANGED encVars
  /\ UNCHANGED drvVars

\* SectorCalibrator::save()
Save(w) ==
  /\ \E r \in {save(cal[w], nvs[w])} :
       /\ cal' = [cal EXCEPT ![w] = r.cal]
       /\ nvs' = [nvs EXCEPT ![w] = r.nvs]
       /\ lastSaved' = [lastSaved EXCEPT ![w] = [valid |-> TRUE, cal |-> r.cal]]
  /\ ret' = [RetNone EXCEPT !.op = "save", !.w = w]
  /\ UNCHANGED <<enc, script, runs>>
  /\ UNCHANGED encVars
  /\ UNCHANGED drvVars

\* SectorCalibrator::clear()
Clear(w) ==
  /\ \E r \in {clear(cal[w], nvs[w])} :
       /\ cal' = [cal EXCEPT ![w] = r.cal]
       /\ nvs' = [nvs EXCEPT ![w] = r.nvs]
       /\ lastSaved' = [lastSaved EXCEPT ![w] = [valid |-> TRUE, cal |-> r.cal]]
  /\ ret' = [RetNone EXCEPT !.op = "clear", !.w = w]
  /\ UNCHANGED <<enc, script, runs>>
  /\ UNCHANGED encVars
  /\ UNCHANGED drvVars

\* SectorCalibrator::setUseLUTFwd(on)
SetUseLUTFwd(w, on) ==
  /\ cal' = [cal EXCEPT ![w].useFwd = on]
  /\ ret' = [RetNone EXCEPT !.op = "setUseLUTFwd", !.w = w, !.ok = on]
  /\ UNCHANGED <<nvs, enc, script, runs, lastSaved>>
  /\ UNCHANGED encVars
  /\ UNCHANGED drvVars

\* SectorCalibrator::setUseLUTRev(on)
SetUseLUTRev(w, on) ==
  /\ cal' = [cal EXCEPT ![w].useRev = on]
  /\ ret' = [RetNone EXCEPT !.op = "setUseLUTRev", !.w = w, !.ok = on]
  /\ UNCHANGED <<nvs, enc, script, runs, lastSaved>>
  /\ UNCHANGED encVars
  /\ UNCHANGED drvVars

\* SectorCalibrator::correctDtDir(k, dt, stepDir): a const call, its value in ret
CorrectDt(w, k, dt, stepDir) ==
  /\ ret' = [RetNone EXCEPT !.op = "correctDt", !.w = w, !.k = k, !.dt = dt,
                            !.dir = stepDir,
                            !.val = correctDtDir(cal[w], k, dt, stepDir)]
  /\ UNCHANGED <<cal, nvs, enc, script, runs, lastSaved>>
  /\ UNCHANGED encVars
  /\ UNCHANGED drvVars

(***************************************************************************)
(* Pulse capture: the ISR of one wheel, word by word                       *)
(***************************************************************************)
\* the triple the three shared words hold
Triple(e) == <<e.isrCount, e.isrPeriodUs, e.isrLastUs>>

\* the ISR invocation of wheel w is over: its triple joins the history
Committed(w, e) == [hist EXCEPT !.triples[w] = @ \cup {Triple(e)}]

\* _pcnt_isr / _isrHandler entered gap microseconds after the last accepted pulse
IsrEnter(w, gap) ==
  /\ isr[w].pc = "idle"
  /\ enc[w].isrCount < MaxPulses
  /\ ~gapRejects(build, enc[w].cfg, enc[w].isrLastUs, enc[w].isrLastUs + gap)
  /\ isr' = [isr EXCEPT ![w] = isrAccept(build, enc[w].isrLastUs, enc[w].isrLastUs + gap)]
  /\ UNCHANGED <<cal, nvs, enc, script, ret, runs, lastSaved,
                 build, mux, task, lastConsumed, hist>>
  /\ UNCHANGED drvVars

\* portENTER_CRITICAL_ISR(&_mux): the ISR spins until the lock is free
IsrLock(w) ==
  /\ isr[w].pc = "lock"
  /\ mux[w] = "free"
  /\ mux' = [mux EXCEPT ![w] = "isr"]
  /\ isr' = [isr EXCEPT ![w].pc = "lastUs"]
  /\ UNCHANGED <<cal, nvs, enc, script, ret, runs, lastSaved,
                 build, task, lastConsumed, hist>>
  /\ UNCHANGED drvVars

\* _isrLastUs = nowUs; the last write of part_000's handler
IsrWriteLastUs(w) ==
  /\ isr[w].pc = "lastUs"
  /\ enc' = [enc EXCEPT ![w].isrLastUs = isr[w].now]
  /\ isr' = [isr EXCEPT ![w] = IF build = "part_007" THEN [@ EXCEPT !.pc = "period"]
                                                      ELSE IsrIdle]
  /\ hist' = IF build = "part_007" THEN hist ELSE Committed(w, enc'[w])
  /\ UNCHANGED <<cal, nvs, script, ret, runs, lastSaved,
                 build, mux, task, lastConsumed>>
  /\ UNCHANGED drvVars

\* part_007: if (period) _isrPeriodUs = period;  part_000: _isrPeriodUs = now - _isrLastUs
IsrWritePeriod(w) ==
  /\ isr[w].pc = "period"
  /\ enc' = [enc EXCEPT ![w].isrPeriodUs =
               IF build = "part_007" THEN (IF isr[w].period # 0 THEN isr[w].period ELSE @)
               ELSE isr[w].now - enc[w].isrLastUs]
  /\ isr' = [isr EXCEPT ![w].pc = IF build = "part_007" THEN "count" ELSE "lastUs"]
  /\ UNCHANGED <<cal, nvs, script, ret, runs, lastSaved,
                 build, mux, task, lastConsumed, hist>>
  /\ UNCHANGED drvVars

\* _isrCount++
IsrWriteCount(w) ==
  /\ isr[w].pc = "count"
  /\ enc' = [enc EXCEPT ![w].isrCount = @ + 1]
  /\ isr' = [isr EXCEPT ![w].pc = IF build = "part_007" THEN "unlock" ELSE "period"]
  /\ UNCHANGED <<cal, nvs, script, ret, runs, lastSaved,
                 build, mux, task, lastConsumed, hist>>
  /\ UNCHANGED drvVars

\* portEXIT_CRITICAL_ISR(&_mux) and return
IsrUnlock(w) ==
  /\ isr[w].pc = "unlock"
  /\ mux' = [mux EXCEPT ![w] = "free"]
  /\ isr' = [isr EXCEPT ![w] = IsrIdle]
  /\ hist' = Committed(w, enc[w])
  /\ UNCHANGED <<cal, nvs, enc, script, ret, runs, lastSaved,
                 build, task, lastConsumed>>
  /\ UNCHANGED drvVars

(***************************************************************************)
(* The control task: DifferentialDrive::update calls update() of the right *)
(* wheel, then of the left wheel, every tick                               *)
(***************************************************************************)
OtherWheel(w) == IF w = "R" THEN "L" ELSE "R"

\* portENTER_CRITICAL(&_mux)
UpdLock ==
  /\ task.pc = "lock"
  /\ mux[task.w] = "free"
  /\ mux' = [mux EXCEPT ![task.w] = "task"]
  /\ task' = [task EXCEPT !.pc = "readCount"]
  /\ UNCHANGED <<cal, nvs, enc, script, ret, runs, lastSaved,
                 build, isr, lastConsumed, hist>>
  /\ UNCHANGED drvVars

\* cntSnap = _isrCount
UpdReadCount ==
  /\ task.pc = "readCount"
  /\ task' = [task EXCEPT !.pc = "readPeriod", !.cntSnap = enc[task.w].isrCount]
  /\ UNCHANGED <<cal, nvs, enc, script, ret, runs, lastSaved,
                 build, mux, isr, lastConsumed, hist>>
  /\ UNCHANGED drvVars

\* perSnap = _isrPeriodUs
UpdReadPeriod ==
  /\ task.pc = "readPeriod"
  /\ task' = [task EXCEPT !.pc = "readLastUs", !.perSnap = enc[task.w].isrPeriodUs]
  /\ UNCHANGED <<cal, nvs, enc, script, ret, runs, lastSaved,
                 build, mux, isr, lastConsumed, hist>>
  /\ UNCHANGED drvVars

\* lastUsSnap = _isrLastUs
UpdReadLastUs ==
  /\ task.pc = "readLastUs"
  /\ task' = [task EXCEPT !.pc = "unlock", !.lastUsSnap = enc[task.w].isrLastUs]
  /\ UNCHANGED <<cal, nvs, enc, script, ret, runs, lastSaved,
                 build, mux, isr, lastConsumed, hist>>
  /\ UNCHANGED drvVars

\* portEXIT_CRITICAL(&_mux) and the rest of update(), which only the task touches
UpdConsume(timedOut) ==
  /\ task.pc = "unlock"
  /\ mux' = [mux EXCEPT ![task.w] = "free"]
  /\ \E r \in {update(build, enc[task.w], cal[task.w], nvs[task.w],
                      lastConsumed, task.cntSnap, task.perSnap, timedOut)} :
       /\ enc' = [enc EXCEPT ![task.w] =
                    [r.enc EXCEPT !.isrCount = enc[task.w].isrCount,
                                  !.isrPeriodUs = enc[task.w].isrPeriodUs,
                                  !.isrLastUs = enc[task.w].isrLastUs]]
       /\ cal' = [cal EXCEPT ![task.w] = r.cal]
       /\ nvs' = [nvs EXCEPT ![task.w] = r.nvs]
       /\ lastConsumed' = r.lastConsumed
       /\ hist' = [hist EXCEPT !.prevCount[task.w] = task.cntSnap,
                               !.applied = r.applied]
  /\ task' = TaskAt(OtherWheel(task.w))
  /\ ret' = [RetNone EXCEPT !.op = "update", !.w = task.w]
  /\ UNCHANGED <<script, runs, lastSaved, build, isr>>
  /\ UNCHANGED drvVars

(***************************************************************************)
(* SpecCalib: one calibration run of wheel R, from any sector index, in    *)
(* either direction; or the scripted run of the PPR = 4, three-lap example *)
(***************************************************************************)
ScenarioCalCfg == [ppr |-> 4, maxLaps |-> 12, useLUTByDefault |-> TRUE]

ScenarioEncCfg == [pulsesPerRev |-> 4, invert |-> FALSE, minGapUs |-> 0,
                   alphaPeriod |-> F(1)]

\* sector rows (100,110,105), (200,220,210), (100,110,105), (100,110,105),
\* in the order the pulses arrive: lap by lap, sector 0 to 3
CalibTape ==
  << F(100), F(200), F(100), F(100),
     F(110), F(220), F(110), F(110),
     F(105), F(210), F(105), F(105) >>

InitIdle(k0, d0) ==
  /\ nvs = [w \in Wheels |-> EmptyStore]
  /\ cal = [w \in Wheels |-> load(NewCalibrator(CalCfg), EmptyStore)]
  /\ enc = [w \in Wheels |->
              IF w = "R" THEN [NewEncoder(EncCfg) EXCEPT !.sectorIdx = k0, !.stepDir = d0]
              ELSE NewEncoder(EncCfg)]
  /\ script = NoScript
  /\ ret = RetNone
  /\ runs = [w \in Wheels |-> 0]
  /\ lastSaved = [w \in Wheels |-> NeverSaved(cal[w])]
  /\ InitCapture("part_007")
  /\ InitParked

InitCalibScenario ==
  /\ nvs = [w \in Wheels |-> EmptyStore]
  /\ cal = [w \in Wheels |->
              IF w = "R"
              THEN startCalibrationDir(load(NewCalibrator(ScenarioCalCfg), EmptyStore), 3, 1)
              ELSE load(NewCalibrator(CalCfg), EmptyStore)]
  /\ enc = [w \in Wheels |-> IF w = "R" THEN NewEncoder(ScenarioEncCfg)
                                        ELSE NewEncoder(EncCfg)]
  /\ script = [on |-> TRUE, tape |-> CalibTape]
  /\ ret = [RetNone EXCEPT !.op = "startCalibration", !.ok = TRUE]
  /\ runs = [w \in Wheels |-> IF w = "R" THEN 1 ELSE 0]
  /\ lastSaved = [w \in Wheels |-> NeverSaved(cal[w])]
  /\ InitCapture("part_007")
  /\ InitParked

InitCalib ==
  \/ \E k0 \in 0 .. (PPR - 1), d0 \in {1, -1} : InitIdle(k0, d0)
  \/ InitCalibScenario

NextCalib ==
  \/ \E lapsN \in 0 .. (MaxLaps + 1), dir \in {1, -1} : StartCalibration("R", lapsN, dir)
  \/ \E dt \in NextPeriods : ApplyPeriod("R", dt)

SpecCalib == InitCalib /\ [][NextCalib]_vars

(***************************************************************************)
(* SpecAlign: one alignment run of wheel R, in either direction, on a      *)
(* calibrator loaded from a store that holds a LUT per direction and       *)
(* nonzero offsets; or the scripted single-lap run of the PPR = 4 example. *)
(* A pulse may carry a zero period: the update() of part_000 hands         *)
(* _applyPeriodAndCompute the captured period as it is.                    *)
(***************************************************************************)
\* a forward LUT whose pattern is (2, 1, .., 1) / mean
LutA(ppr) == [k \in 0 .. (ppr - 1) |-> IF k = 0 THEN FRat(1, 2) ELSE F(1)]

\* a reverse LUT whose pattern is (1, .., 1, 2) / mean
LutB(ppr) == [k \in 0 .. (ppr - 1) |-> IF k = ppr - 1 THEN FRat(1, 2) ELSE F(1)]

\* the store a calibrator with the given LUTs, flags and offsets saves
StoreOf(ppr, lf, lr, uf, ur, offF, offR) ==
  [EmptyStore EXCEPT !.use_fwd = putBool(uf), !.use_rev = putBool(ur),
                     !.off_fwd = putUShort(offF), !.off_rev = putUShort(offR),
                     !.lut_fwd = putBytes(lf, ppr), !.lut_rev = putBytes(lr, ppr)]

AlignStore == StoreOf(PPR, LutA(PPR), LutB(PPR), TRUE, TRUE, 1, PPR - 1)

\* the example: pattern (2, 1, 1, 1) / mean, lap (1, 1, 1.25, 0.625)
ScenarioAlignStore == StoreOf(4, LutA(4), Ones(4), TRUE, TRUE, 0, 0)

AlignTape == << F(1), F(1), FRat(5, 4), FRat(5, 8) >>

InitAlignIdle ==
  /\ nvs = [w \in Wheels |-> IF w = "R" THEN AlignStore ELSE EmptyStore]
  /\ cal = [w \in Wheels |-> load(NewCalibrator(CalCfg), nvs[w])]
  /\ enc = [w \in Wheels |-> NewEncoder(EncCfg)]
  /\ script = NoScript
  /\ ret = RetNone
  /\ runs = [w \in Wheels |-> 0]
  /\ lastSaved = [w \in Wheels |-> NeverSaved(cal[w])]
  /\ InitCapture("part_007")
  /\ InitParked

InitAlignScenario ==
  /\ nvs = [w \in Wheels |-> IF w = "R" THEN ScenarioAlignStore ELSE EmptyStore]
  /\ cal = [w \in Wheels |->
              IF w = "R"
              THEN startAlignmentDir(load(NewCalibrator(ScenarioCalCfg), nvs[w]), 1, 1)
              ELSE load(NewCalibrator(CalCfg), nvs[w])]
  /\ enc = [w \in Wheels |-> IF w = "R" THEN NewEncoder(ScenarioEncCfg)
                                        ELSE NewEncoder(EncCfg)]
  /\ script = [on |-> TRUE, tape |-> AlignTape]
  /\ ret = [RetNone EXCEPT !.op = "startAlignment", !.ok = TRUE]
  /\ runs = [w \in Wheels |-> IF w = "R" THEN 1 ELSE 0]
  /\ lastSaved = [w \in Wheels |-> NeverSaved(cal[w])]
  /\ InitCapture("part_007")
  /\ InitParked

InitAlign == InitAlignIdle \/ InitAlignScenario

\* period samples the next pulse may carry, the zero period included
NextPeriodsOrZero == IF script.on THEN NextPeriods ELSE NextPeriods \cup {F(0)}

NextAlign ==
  \/ \E lapsN \in 0 .. (MaxLaps + 1), dir \in {1, -1} : StartAlignment("R", lapsN, dir)
  \/ \E dt \in NextPeriodsOrZero : ApplyPeriod("R", dt)

SpecAlign == InitAlign /\ [][NextAlign]_vars

(***************************************************************************)
(* SpecStore: the persistence operations and the period correction of      *)
(* wheel R, over a store that is empty, or was written by this calibrator, *)
(* or by a calibrator of PPR + 1 sectors, or by the single-LUT calibrator. *)
(***************************************************************************)
\* the store a calibrator of PPR + 1 sectors leaves, its offsets at PPR
WiderStore == StoreOf(PPR + 1, LutA(PPR + 1), LutB(PPR + 1), TRUE, FALSE, PPR, PPR)

\* the store of the single-LUT calibrator: use_lut and lut
LegacyStore ==
  [EmptyStore EXCEPT !.use_lut = putBool(TRUE), !.lut = putBytes(LutA(PPR), PPR)]

\* the same, saved after setUseLUT(false)
LegacyStoreOff == [LegacyStore EXCEPT !.use_lut = putBool(FALSE)]

InitStores == {EmptyStore, AlignStore, WiderStore, LegacyStore, LegacyStoreOff}

InitStore ==
  /\ nvs \in [Wheels -> InitStores]
  /\ nvs["L"] = EmptyStore
  /\ cal = [w \in Wheels |-> NewCalibrator(CalCfg)]
  /\ enc = [w \in Wheels |-> NewEncoder(EncCfg)]
  /\ script = NoScript
  /\ ret = RetNone
  /\ runs = [w \in Wheels |-> 0]
  /\ lastSaved = [w \in Wheels |-> NeverSaved(cal[w])]
  /\ InitCapture("part_007")
  /\ InitParked

NextStore ==
  \/ Load("R")
  \/ PowerCycle("R")
  \/ Save("R")
  \/ Clear("R")
  \/ \E on \in BOOLEAN : SetUseLUTFwd("R", on)
  \/ \E on \in BOOLEAN : SetUseLUTRev("R", on)
  \/ \E k \in 0 .. (PPR - 1), dt \in PeriodSamples, stepDir \in {1, 0, -1} :
       CorrectDt("R", k, F(dt), stepDir)

SpecStore == InitStore /\ [][NextStore]_vars

(***************************************************************************)
(* SpecEnc: the pulse ISRs of both wheels against the control task, for    *)
(* either EncoderPCNT.cpp.  The right wheel corrects periods with a LUT.   *)
(* An ISR may be serviced while the task is inside its critical section    *)
(* (on the other core); what keeps it out is the lock, where it takes it.  *)
(***************************************************************************)
InitEnc ==
  /\ nvs = [w \in Wheels |-> IF w = "R" THEN AlignStore ELSE EmptyStore]
  /\ cal = [w \in Wheels |-> load(NewCalibrator(CalCfg), nvs[w])]
  /\ enc = [w \in Wheels |-> NewEncoder(EncCfg)]
  /\ script = NoScript
  /\ ret = RetNone
  /\ runs = [w \in Wheels |-> 0]
  /\ lastSaved = [w \in Wheels |-> NeverSaved(cal[w])]
  /\ \E b \in {"part_007", "part_000"} : InitCapture(b)
  /\ InitParked

\* microseconds between two pulses of a wheel; the left wheel turns steadily
PulseGaps(w) == IF w = "R" THEN PeriodSamples ELSE {CHOOSE p \in PeriodSamples : TRUE}

NextEnc ==
  \/ \E w \in Wheels : \E gap \in PulseGaps(w) : IsrEnter(w, gap)
  \/ \E w \in Wheels : IsrLock(w)
  \/ \E w \in Wheels : IsrWriteLastUs(w)
  \/ \E w \in Wheels : IsrWritePeriod(w)
  \/ \E w \in Wheels : IsrWriteCount(w)
  \/ \E w \in Wheels : IsrUnlock(w)
  \/ UpdLock
  \/ UpdReadCount
  \/ UpdReadPeriod
  \/ UpdReadLastUs
  \/ \E timedOut \in BOOLEAN : UpdConsume(timedOut)

SpecEnc == InitEnc /\ [][NextEnc]_vars

(***************************************************************************)
(* Calls on the robot: the wheels, their calibrators and the drive         *)
(***************************************************************************)
\* the robot the variables hold
Robot ==
  [build |-> build, wheel |-> wheel, enc |-> enc, cal |-> cal, nvs |-> nvs,
   lastConsumed |-> lastConsumed, was |-> was, drive |-> drive]

\* the variables take the robot r
Becomes(r) ==
  /\ wheel' = r.wheel
  /\ enc' = r.enc
  /\ cal' = r.cal
  /\ nvs' = r.nvs
  /\ lastConsumed' = r.lastConsumed
  /\ was' = r.was
  /\ drive' = r.drive

\* what a call on the robot leaves alone
restVars == <<script, lastSaved, build, mux, isr, task, hist>>

SignOf(dir) == IF dir >= 0 THEN 1 ELSE -1

\* SectorCalibrator::startCalibrationDir(lapsN, dir), also while a run is active
CalStartCalibrationDir(w, lapsN, dir) ==
  /\ runs[w] < MaxRuns
  /\ \E ok \in {startCalibrationDirOk(cal[w], lapsN)} :
       /\ cal' = [cal EXCEPT ![w] = startCalibrationDir(@, lapsN, dir)]
       /\ runs' = [runs EXCEPT ![w] = IF ok THEN @ + 1 ELSE @]
       /\ given' = IF ok THEN [given EXCEPT ![w].calib = SignOf(dir)] ELSE given
       /\ ret' = [RetNone EXCEPT !.op = "startCalibrationDir", !.w = w, !.ok = ok, !.dir = dir]
       /\ call' = [NoCall EXCEPT !.op = "startCalibrationDir", !.wheel = w,
                                 !.lapsN = lapsN, !.dir = dir, !.ok = ok]
  /\ UNCHANGED <<nvs, enc, lastConsumed, wheel, drive, was>>
  /\ UNCHANGED restVars

\* SectorCalibrator::startAlignmentDir(lapsN, dir), also while a run is active
CalStartAlignmentDir(w, lapsN, dir) ==
  /\ runs[w] < MaxRuns
  /\ \E ok \in {startAlignmentDirOk(cal[w], lapsN, dir)} :
       /\ cal' = [cal EXCEPT ![w] = startAlignmentDir(@, lapsN, dir)]
       /\ runs' = [runs EXCEPT ![w] = IF ok THEN @ + 1 ELSE @]
       /\ given' = IF ok THEN [given EXCEPT ![w].align = SignOf(dir)] ELSE given
       /\ ret' = [RetNone EXCEPT !.op = "startAlignmentDir", !.w = w, !.ok = ok, !.dir = dir]
       /\ call' = [NoCall EXCEPT !.op = "startAlignmentDir", !.wheel = w,
                                 !.lapsN = lapsN, !.dir = dir, !.ok = ok]
  /\ UNCHANGED <<nvs, enc, lastConsumed, wheel, drive, was>>
  /\ UNCHANGED restVars

\* Wheel::startCalibration(lapsN), in the wheel's current direction
WheelStartCalibration(w, lapsN) ==
  /\ runs[w] < MaxRuns
  /\ \E ok \in {Wheel_startCalibrationOk(Robot, w, lapsN)} :
       /\ \E r \in {Wheel_startCalibration(Robot, w, lapsN)} : Becomes(r)
       /\ runs' = [runs EXCEPT ![w] = IF ok THEN @ + 1 ELSE @]
       /\ given' = IF ok THEN [given EXCEPT ![w].calib = wheel[w].dir] ELSE given
       /\ ret' = [RetNone EXCEPT !.op = "Wheel::startCalibration", !.w = w, !.ok = ok,
                                 !.dir = wheel[w].dir]
       /\ call' = [NoCall EXCEPT !.op = "Wheel::startCalibration", !.wheel = w,
                                 !.lapsN = lapsN, !.dir = wheel[w].dir, !.ok = ok]
  /\ UNCHANGED restVars

\* Wheel::startAlignment(lapsN), in the wheel's current direction
WheelStartAlignment(w, lapsN) ==
  /\ runs[w] < MaxRuns
  /\ \E ok \in {Wheel_startAlignmentOk(Robot, w, lapsN)} :
       /\ \E r \in {Wheel_startAlignment(Robot, w, lapsN)} : Becomes(r)
       /\ runs' = [runs EXCEPT ![w] = IF ok THEN @ + 1 ELSE @]
       /\ given' = IF ok THEN [given EXCEPT ![w].align = wheel[w].dir] ELSE given
       /\ ret' = [RetNone EXCEPT !.op = "Wheel::startAlignment", !.w = w, !.ok = ok,
                                 !.dir = wheel[w].dir]
       /\ call' = [NoCall EXCEPT !.op = "Wheel::startAlignment", !.wheel = w,
                                 !.lapsN = lapsN, !.dir = wheel[w].dir, !.ok = ok]
  /\ UNCHANGED restVars

(***************************************************************************)
(* SpecStart: routines of wheel R started on the calibrator or through the *)
(* wheel, with valid and invalid lap counts, in either direction, also     *)
(* while a run is active; the pulses feed whichever routine is active.     *)
(* The wheel has been driven forwards or backwards before; its store holds *)
(* a LUT per direction, or the forward LUT of the single-LUT calibrator.   *)
(***************************************************************************)
InitStart ==
  /\ nvs \in [Wheels -> {AlignStore, LegacyStore}]
  /\ nvs["L"] = AlignStore
  /\ cal = [w \in Wheels |-> load(NewCalibrator(CalCfg), nvs[w])]
  /\ \E d0 \in {1, -1} :
       /\ enc = [w \in Wheels |-> IF w = "R" THEN setStepDirection(NewEncoder(EncCfg), d0)
                                             ELSE NewEncoder(EncCfg)]
       /\ wheel = [w \in Wheels |->
                     IF w = "R" THEN [NewWheel(WheelCfg(FALSE)) EXCEPT !.dir = d0]
                     ELSE NewWheel(WheelCfg(FALSE))]
  /\ drive = NewDrive(DriveCfg(FALSE))
  /\ was = [wasCal |-> FALSE, wasAlign |-> FALSE]
  /\ call = NoCall
  /\ given = NotGiven
  /\ script = NoScript
  /\ ret = RetNone
  /\ runs = [w \in Wheels |-> 0]
  /\ lastSaved = [w \in Wheels |-> NeverSaved(cal[w])]
  /\ InitCapture("part_007")

\* lap counts asked for: none, one, more than maxLaps
StartLaps == {0, 1, MaxLaps + 1}

NextStart ==
  \/ \E lapsN \in StartLaps, dir \in {1, -1} : CalStartCalibrationDir("R", lapsN, dir)
  \/ \E lapsN \in StartLaps, dir \in {1, -1} : CalStartAlignmentDir("R", lapsN, dir)
  \/ \E lapsN \in StartLaps : WheelStartCalibration("R", lapsN)
  \/ \E lapsN \in StartLaps : WheelStartAlignment("R", lapsN)
  \/ \E dt \in NextPeriods : ApplyPeriod("R", dt)

SpecStart == InitStart /\ [][NextStart]_vars

(***************************************************************************)
(* SpecDrive: the drive and its two wheels after begin().  The main loop   *)
(* calls update() every tick and may command a twist, stop, start a        *)
(* coordinated routine or a wheel's routine, or abort, between two ticks;  *)
(* pulses arrive on either wheel.  An ISR invocation is taken as a whole   *)
(* (part_007 holds _mux over its writes and update() over its reads).      *)
(* Either both wheels have a stored LUT per direction and the wheels and   *)
(* the drive align on boot (the headers' defaults), or the left wheel has  *)
(* an empty store and nothing is started on boot.                          *)
(***************************************************************************)
\* the tick of the main loop, dt_s of update()
TickDt == FRat(1, 5)

\* the twist the main loop commands: forwards while spinning right, which
\* turns the right wheel backwards
Twists == {<<FRat(3, 10), F(-4)>>}


\* the drive has been begun
Begun == call.op # "constructed"

\* the main loop may make another call besides update()
MayCall == Begun /\ call.n < MaxCalls

\* DifferentialDrive::begin(), once, before anything else
DriveBegin ==
  /\ ~Begun
  /\ \E r \in {Drive_begin(Robot)} : Becomes(r)
  /\ call' = [NoCall EXCEPT !.op = "begin", !.from = drive.coordState]
  /\ ret' = [RetNone EXCEPT !.op = "Drive::begin"]
  /\ UNCHANGED <<runs, given>>
  /\ UNCHANGED restVars

\* DifferentialDrive::setTwist(v, w)
SetTwist(v, w) ==
  /\ MayCall
  /\ \E r \in {setTwist(Robot, v, w)} : Becomes(r)
  /\ call' = [NoCall EXCEPT !.op = "setTwist", !.v = v, !.w = w,
                            !.from = drive.coordState,
                            !.n = call.n + 1]
  /\ ret' = [RetNone EXCEPT !.op = "setTwist"]
  /\ UNCHANGED <<runs, given>>
  /\ UNCHANGED restVars

\* DifferentialDrive::stop()
Stop ==
  /\ MayCall
  /\ \E r \in {stop(Robot)} : Becomes(r)
  /\ call' = [NoCall EXCEPT !.op = "stop", !.from = drive.coordState,
                            !.n = call.n + 1]
  /\ ret' = [RetNone EXCEPT !.op = "stop"]
  /\ UNCHANGED <<runs, given>>
  /\ UNCHANGED restVars

\* DifferentialDrive::abortCoordinatedRoutine()
Abort ==
  /\ MayCall
  /\ \E r \in {abortCoordinatedRoutine(Robot)} : Becomes(r)
  /\ call' = [NoCall EXCEPT !.op = "abortCoordinatedRoutine", !.from = drive.coordState,
                            !.n = call.n + 1]
  /\ ret' = [RetNone EXCEPT !.op = "abortCoordinatedRoutine"]
  /\ UNCHANGED <<runs, given>>
  /\ UNCHANGED restVars

\* DifferentialDrive::startCoordinatedAlignment(lapsN, w_assist)
StartCoordinatedAlignment(lapsN, w_assist) ==
  /\ MayCall
  /\ \E r \in {startCoordinatedAlignment(Robot, lapsN, w_assist)} : Becomes(r)
  /\ \E ok \in {startCoordinatedAlignmentOk(Robot, lapsN, w_assist)} :
       /\ call' = [NoCall EXCEPT !.op = "startCoordinatedAlignment", !.lapsN = lapsN,
                                 !.w = w_assist, !.ok = ok, !.from = drive.coordState,
                            !.n = call.n + 1]
       /\ ret' = [RetNone EXCEPT !.op = "startCoordinatedAlignment", !.ok = ok]
  /\ UNCHANGED <<runs, given>>
  /\ UNCHANGED restVars

\* DifferentialDrive::startCoordinatedCalibration(lapsN, w_assist)
StartCoordinatedCalibration(lapsN, w_assist) ==
  /\ MayCall
  /\ \E r \in {startCoordinatedCalibration(Robot, lapsN, w_assist)} : Becomes(r)
  /\ \E ok \in {startCoordinatedCalibrationOk(Robot, lapsN, w_assist)} :
       /\ call' = [NoCall EXCEPT !.op = "startCoordinatedCalibration", !.lapsN = lapsN,
                                 !.w = w_assist, !.ok = ok, !.from = drive.coordState,
                            !.n = call.n + 1]
       /\ ret' = [RetNone EXCEPT !.op = "startCoordinatedCalibration", !.ok = ok]
  /\ UNCHANGED <<runs, given>>
  /\ UNCHANGED restVars

\* DifferentialDrive::update(dt_s): one tick of the main loop
Tick(timedOut) ==
  /\ Begun
  /\ \E r \in {Drive_update(Robot, TickDt, timedOut)} : Becomes(r)
  /\ call' = [NoCall EXCEPT !.op = "update", !.from = drive.coordState, !.n = call.n]
  /\ ret' = [RetNone EXCEPT !.op = "Drive::update"]
  /\ UNCHANGED <<runs, given>>
  /\ UNCHANGED restVars

\* a pulse of wheel w, gap microseconds after its last one: the whole ISR
Pulse(w, gap) ==
  /\ Begun
  /\ enc[w].isrCount < MaxPulses
  /\ ~gapRejects(build, enc[w].cfg, enc[w].isrLastUs, enc[w].isrLastUs + gap)
  /\ \E a \in {isrAccept(build, enc[w].isrLastUs, enc[w].isrLastUs + gap)} :
       /\ enc' = [enc EXCEPT ![w].isrLastUs = a.now,
                             ![w].isrPeriodUs = IF a.period # 0 THEN a.period ELSE @,
                             ![w].isrCount = @ + 1]
       /\ hist' = Committed(w, enc'[w])
  /\ UNCHANGED <<cal, nvs, script, ret, runs, lastSaved, build, mux, isr, task, lastConsumed>>
  /\ UNCHANGED drvVars

InitDrive ==
  /\ nvs \in [Wheels -> {AlignStore, EmptyStore}]
  /\ nvs["R"] = AlignStore
  /\ cal = [w \in Wheels |-> NewCalibrator(CalCfg)]
  /\ enc = [w \in Wheels |-> NewEncoder(EncCfg)]
  /\ \E autoAlign \in BOOLEAN :
       /\ autoAlign <=> nvs["L"] = AlignStore
       /\ wheel = [w \in Wheels |-> NewWheel(WheelCfg(autoAlign))]
       /\ drive = NewDrive(DriveCfg(autoAlign))
  /\ was = [wasCal |-> FALSE, wasAlign |-> FALSE]
  /\ call = NoCall
  /\ given = NotGiven
  /\ script = NoScript
  /\ ret = RetNone
  /\ runs = [w \in Wheels |-> 0]
  /\ lastSaved = [w \in Wheels |-> NeverSaved(cal[w])]
  /\ InitCapture("part_007")

\* microseconds between two pulses of a wheel in SpecDrive
DriveGaps == {CHOOSE p \in PeriodSamples : TRUE}

\* the pulse timeout of update() as the two estimators see it in one tick:
\* expired for both or for neither
Timeouts == {[w \in Wheels |-> b] : b \in BOOLEAN}

NextDrive ==
  \/ DriveBegin
  \/ \E t \in Twists : SetTwist(t[1], t[2])
  \/ Stop
  \/ Abort
  \/ \E lapsN \in StartLaps : StartCoordinatedAlignment(lapsN, F(0))
  \/ \E lapsN \in StartLaps : StartCoordinatedCalibration(lapsN, F(0))
  \/ \E timedOut \in Timeouts : Tick(timedOut)
  \/ \E w \in Wheels, gap \in DriveGaps : Pulse(w, gap)

SpecDrive == InitDrive /\ [][NextDrive]_vars

(***************************************************************************)
(* SpecEst: the two estimators alone, for either EncoderPCNT.cpp and for   *)
(* the settings of invert and minGapUs: hardware pulses, accepted or       *)
(* dropped by the ISR, update() of either wheel at any moment, and         *)
(* setStepDirection.  Both calibrators are idle.                           *)
(***************************************************************************)
\* Config.minGapUs: the window off, or two microseconds
MinGaps == {0, 2}

\* microseconds from the last accepted pulse of a wheel to its next hardware
\* pulse; the left wheel turns steadily
HwGaps(w) == IF w = "R" THEN {1, 3} ELSE {3}

\* the writes of _onPulseIsr / _isrHandler for a pulse the window lets through
onPulseIsr(b, e, nowUs) ==
  IF b = "part_007"
  THEN The({[e EXCEPT !.isrLastUs = nowUs,
                      !.isrPeriodUs = IF period # 0 THEN period ELSE @,
                      !.isrCount = @ + 1] :
              period \in {IF e.isrLastUs = 0 THEN 0 ELSE nowUs - e.isrLastUs}})
  ELSE [e EXCEPT !.isrCount = @ + 1,
                 !.isrPeriodUs = nowUs - e.isrLastUs,
                 !.isrLastUs = nowUs]

\* a hardware pulse of wheel w at nowUs = last_us + gap: the whole ISR
HwPulse(w, gap) ==
  /\ enc[w].isrCount < MaxPulses
  /\ \E now \in {enc[w].isrLastUs + gap} :
       \E rej \in {gapRejects(build, enc[w].cfg, enc[w].isrLastUs, now)} :
         /\ enc' = IF rej THEN enc ELSE [enc EXCEPT ![w] = onPulseIsr(build, @, now)]
         /\ call' = [NoCall EXCEPT !.op = "_onPulseIsr", !.wheel = w,
                                   !.nowUs = now, !.ok = ~rej]
  /\ UNCHANGED <<cal, nvs, script, ret, runs, lastSaved, build, mux, isr, task,
                 lastConsumed, hist, wheel, drive, was, given>>

\* EncoderPCNT::update() of wheel w; timedOut: millis() - _lastSeenMs > timeoutStopMs
EstUpdate(w, timedOut) ==
  /\ \E r \in {Enc_update(Robot, w, timedOut)} : Becomes(r)
  /\ call' = [NoCall EXCEPT !.op = "EncoderPCNT::update", !.wheel = w, !.ok = timedOut]
  /\ hist' = [hist EXCEPT !.prevCount[w] = enc[w].isrCount]
  /\ UNCHANGED <<script, ret, runs, lastSaved, build, mux, isr, task, given>>

\* EncoderPCNT::setStepDirection(dir) on wheel w
EstSetStepDirection(w, dir) ==
  /\ enc' = [enc EXCEPT ![w] = setStepDirection(@, dir)]
  /\ call' = [NoCall EXCEPT !.op = "setStepDirection", !.wheel = w]
  /\ UNCHANGED <<cal, nvs, script, ret, runs, lastSaved, build, mux, isr, task,
                 lastConsumed, hist, wheel, drive, was, given>>

InitEst ==
  /\ nvs = [w \in Wheels |-> IF w = "R" THEN AlignStore ELSE EmptyStore]
  /\ cal = [w \in Wheels |-> load(NewCalibrator(CalCfg), nvs[w])]
  /\ \E inv \in BOOLEAN : \E g \in MinGaps :
       enc = [w \in Wheels |-> NewEncoder([EncCfg EXCEPT !.invert = inv, !.minGapUs = g])]
  /\ script = NoScript
  /\ ret = RetNone
  /\ runs = [w \in Wheels |-> 0]
  /\ lastSaved = [w \in Wheels |-> NeverSaved(cal[w])]
  /\ \E b \in {"part_007", "part_000"} : InitCapture(b)
  /\ InitParked

NextEst ==
  \/ \E w \in Wheels : \E gap \in HwGaps(w) : HwPulse(w, gap)
  \/ \E w \in Wheels : \E timedOut \in BOOLEAN : EstUpdate(w, timedOut)
  \/ \E dir \in {1, -1} : EstSetStepDirection("R", dir)

SpecEst == InitEst /\ [][NextEst]_vars

(***************************************************************************)
(* SpecZero: the right wheel's estimator alone, for either EncoderPCNT.cpp *)
(* and either setting of minGapUs: hardware pulses, update() and zero()    *)
(* in any order.  hist.zeroed records that zero() has been called,         *)
(* hist.prevCount the pulse count at the last update() or zero(), and      *)
(* hist.applied the calls of _applyPeriodAndCompute of the last update().  *)
(***************************************************************************)
\* EncoderPCNT::zero(); _totalCount and the LUT phase of part_000 feed no
\* other field of the model
zero(e) ==
  [e EXCEPT !.isrCount = 0, !.isrPeriodUs = 0, !.isrLastUs = 0,
            !.periodEmaUs = F(0), !.rpm = F(0), !.omega = F(0),
            !.sectorIdx = 0, !.stepDir = 1]

\* EncoderPCNT::zero() on wheel w
EstZero(w) ==
  /\ enc' = [enc EXCEPT ![w] = zero(@)]
  /\ call' = [NoCall EXCEPT !.op = "EncoderPCNT::zero", !.wheel = w]
  /\ hist' = [hist EXCEPT !.zeroed[w] = TRUE, !.prevCount[w] = 0]
  /\ UNCHANGED <<cal, nvs, script, ret, runs, lastSaved, build, mux, isr, task,
                 lastConsumed, wheel, drive, was, given>>

\* EncoderPCNT::update() of wheel w, with the number of pulses it processed
ZeroUpdate(w, timedOut) ==
  /\ \E u \in {update(build, enc[w], cal[w], nvs[w], lastConsumed,
                      enc[w].isrCount, enc[w].isrPeriodUs, timedOut)} :
       /\ enc' = [enc EXCEPT ![w] = u.enc]
       /\ cal' = [cal EXCEPT ![w] = u.cal]
       /\ nvs' = [nvs EXCEPT ![w] = u.nvs]
       /\ lastConsumed' = u.lastConsumed
       /\ hist' = [hist EXCEPT !.prevCount[w] = enc[w].isrCount, !.applied = u.applied]
  /\ call' = [NoCall EXCEPT !.op = "EncoderPCNT::update", !.wheel = w, !.ok = timedOut]
  /\ UNCHANGED <<script, ret, runs, lastSaved, build, mux, isr, task,
                 wheel, drive, was, given>>

InitZero ==
  /\ nvs = [w \in Wheels |-> EmptyStore]
  /\ cal = [w \in Wheels |-> load(NewCalibrator(CalCfg), nvs[w])]
  /\ \E g \in MinGaps :
       enc = [w \in Wheels |-> NewEncoder([EncCfg EXCEPT !.minGapUs = g])]
  /\ script = NoScript
  /\ ret = RetNone
  /\ runs = [w \in Wheels |-> 0]
  /\ lastSaved = [w \in Wheels |-> NeverSaved(cal[w])]
  /\ \E b \in {"part_007", "part_000"} : InitCapture(b)
  /\ InitParked

NextZero ==
  \/ \E gap \in HwGaps("R") : HwPulse("R", gap)
  \/ \E timedOut \in BOOLEAN : ZeroUpdate("R", timedOut)
  \/ EstZero("R")

SpecZero == InitZero /\ [][NextZero]_vars

(***************************************************************************)
(* SpecMotor: the right wheel's MotorPWM on its own, called in any order   *)
(* with commands beyond the range and with zero and positive time steps,   *)
(* under each slew rate, neutral mode and drive mode.                      *)
(***************************************************************************)

\* commands given to setCommand, two of them outside [-1, +1]
MotorCommands == {F(-2), FRat(-1, 2), F(0), FRat(1, 100), FRat(1, 2), F(2)}

\* time steps given to update, in seconds
MotorDts == {F(0), FRat(1, 4), F(1)}

\* slew rates configured, per second
MotorSlews == {F(0), F(1)}

\* the motor the actions of SpecMotor call
TheMotor == wheel["R"].motor

MotorBegin ==
  /\ wheel' = [wheel EXCEPT !["R"].motor = Motor_begin(TheMotor)]
  /\ call' = [NoCall EXCEPT !.op = "MotorPWM::begin", !.v = F(0), !.ok = TRUE]
  /\ UNCHANGED <<cal, nvs, enc, script, ret, runs, lastSaved, build, mux, isr, task,
                 lastConsumed, hist, drive, was, given>>

MotorSetEnabled(en) ==
  /\ wheel' = [wheel EXCEPT !["R"].motor = Motor_setEnabled(TheMotor, en)]
  /\ call' = [NoCall EXCEPT !.op = "MotorPWM::setEnabled", !.v = F(0), !.ok = en]
  /\ UNCHANGED <<cal, nvs, enc, script, ret, runs, lastSaved, build, mux, isr, task,
                 lastConsumed, hist, drive, was, given>>

MotorSetCommand(u) ==
  /\ wheel' = [wheel EXCEPT !["R"].motor = Motor_setCommand(TheMotor, u)]
  /\ call' = [NoCall EXCEPT !.op = "MotorPWM::setCommand", !.v = u, !.ok = TheMotor.enabled]
  /\ UNCHANGED <<cal, nvs, enc, script, ret, runs, lastSaved, build, mux, isr, task,
                 lastConsumed, hist, drive, was, given>>

MotorStop ==
  /\ wheel' = [wheel EXCEPT !["R"].motor = Motor_stop(TheMotor)]
  /\ call' = [NoCall EXCEPT !.op = "MotorPWM::stop", !.v = F(0), !.ok = TheMotor.enabled]
  /\ UNCHANGED <<cal, nvs, enc, script, ret, runs, lastSaved, build, mux, isr, task,
                 lastConsumed, hist, drive, was, given>>

MotorUpdate(dt) ==
  /\ wheel' = [wheel EXCEPT !["R"].motor = Motor_update(TheMotor, dt)]
  /\ call' = [NoCall EXCEPT !.op = "MotorPWM::update", !.v = dt, !.ok = TheMotor.enabled]
  /\ UNCHANGED <<cal, nvs, enc, script, ret, runs, lastSaved, build, mux, isr, task,
                 lastConsumed, hist, drive, was, given>>

InitMotor ==
  /\ nvs = [w \in Wheels |-> EmptyStore]
  /\ cal = [w \in Wheels |-> load(NewCalibrator(CalCfg), nvs[w])]
  /\ enc = [w \in Wheels |-> NewEncoder(EncCfg)]
  /\ script = NoScript
  /\ ret = RetNone
  /\ runs = [w \in Wheels |-> 0]
  /\ lastSaved = [w \in Wheels |-> NeverSaved(cal[w])]
  /\ InitCapture("part_007")
  /\ drive = NewDrive(DriveCfg(TRUE))
  /\ was = [wasCal |-> FALSE, wasAlign |-> FALSE]
  /\ call = NoCall
  /\ given = NotGiven
  /\ \E slew \in MotorSlews : \E nm \in {"Coast", "Brake"} :
       \E dm \in {"SignMagnitude", "LockedAntiPhase"} :
         wheel = [w \in Wheels |->
                    IF w = "R"
                    THEN [NewWheel(WheelCfg(TRUE)) EXCEPT
                            !.motor = NewMotor([MotorCfg EXCEPT !.slewRatePerSec = slew,
                                                                !.neutralMode = nm,
                                                                !.driveMode = dm])]
                    ELSE NewWheel(WheelCfg(TRUE))]

NextMotor ==
  \/ MotorBegin
  \/ \E en \in BOOLEAN : MotorSetEnabled(en)
  \/ \E u \in MotorCommands : MotorSetCommand(u)
  \/ MotorStop
  \/ \E dt \in MotorDts : MotorUpdate(dt)

SpecMotor == InitMotor /\ [][NextMotor]_vars

(***************************************************************************)
(* SpecPins: the two PWM channels of one MotorPWM in SignMagnitude drive   *)
(* mode with Coast neutral, write by write.  Every function of MotorPWM    *)
(* that writes the channels calls _writeIn1_ and then _writeIn2_; the      *)
(* state between the two calls is a state of its own, with call.from =     *)
(* "_writeIn1_" and call.op the function the main loop is in.              *)
(***************************************************************************)
\* the motor when function op reaches its channel writes
beforeWrites(m, op, dt) ==
  IF op = "MotorPWM::begin"
  THEN [m EXCEPT !.maxDuty = 2^m.cfg.resolutionBits - 1,
                 !.uTarget = F(0), !.uApplied = F(0), !.enabled = TRUE]
  ELSE IF op = "MotorPWM::setEnabled" THEN [m EXCEPT !.enabled = FALSE]
  ELSE IF op = "MotorPWM::stop" THEN [m EXCEPT !.uTarget = F(0), !.uApplied = F(0)]
  ELSE slewTo(m, dt)

\* function op from its channel writes on, on the motor p that reached them
afterWrites(p, op) ==
  IF op \in {"MotorPWM::begin", "MotorPWM::stop"} THEN Motor_neutral(p)
  ELSE IF op = "MotorPWM::setEnabled"
  THEN [p EXCEPT !.dutyIn1 = 0, !.dutyIn2 = 0, !.uApplied = F(0)]
  ELSE applyOutputs(p, applyDeadbandMin(p.uApplied, p.cfg.deadband, p.cfg.minOutput))

\* _writeIn1_(d) of function op: IN1 takes its new duty, IN2 still has the old
writeIn1(p, op) == [p EXCEPT !.dutyIn1 = afterWrites(p, op).dutyIn1]

\* the main loop is between the two channel writes of a function
BetweenWrites == call.from = "_writeIn1_"

\* the functions of MotorPWM that write the channels
WriterOps == {"MotorPWM::begin", "MotorPWM::setEnabled", "MotorPWM::stop",
              "MotorPWM::update"}

\* function op reaches its channel writes: begin() and stop() always,
\* setEnabled(false) on an enabled motor, update(dt) on an enabled motor
ReachesWrites(m, op) ==
  op \in {"MotorPWM::setEnabled", "MotorPWM::update"} => m.enabled

\* a function that writes the channels, up to and including _writeIn1_
PinsWriteIn1(op, dt) ==
  /\ ~BetweenWrites
  /\ ReachesWrites(TheMotor, op)
  /\ wheel' = [wheel EXCEPT !["R"].motor = writeIn1(beforeWrites(TheMotor, op, dt), op)]
  /\ call' = [NoCall EXCEPT !.op = op, !.v = dt, !.from = "_writeIn1_"]
  /\ UNCHANGED <<cal, nvs, enc, script, ret, runs, lastSaved, build, mux, isr, task,
                 lastConsumed, hist, drive, was, given>>

\* the same function from _writeIn2_ to its return
PinsWriteIn2 ==
  /\ BetweenWrites
  /\ wheel' = [wheel EXCEPT !["R"].motor = afterWrites(TheMotor, call.op)]
  /\ call' = [call EXCEPT !.from = "CoordIdle", !.ok = TRUE]
  /\ UNCHANGED <<cal, nvs, enc, script, ret, runs, lastSaved, build, mux, isr, task,
                 lastConsumed, hist, drive, was, given>>

\* setCommand(u), which writes no channel
PinsSetCommand(u) ==
  /\ ~BetweenWrites
  /\ MotorSetCommand(u)

\* setEnabled(true), which writes no channel
PinsEnable ==
  /\ ~BetweenWrites
  /\ MotorSetEnabled(TRUE)

InitPins ==
  /\ nvs = [w \in Wheels |-> EmptyStore]
  /\ cal = [w \in Wheels |-> load(NewCalibrator(CalCfg), nvs[w])]
  /\ enc = [w \in Wheels |-> NewEncoder(EncCfg)]
  /\ script = NoScript
  /\ ret = RetNone
  /\ runs = [w \in Wheels |-> 0]
  /\ lastSaved = [w \in Wheels |-> NeverSaved(cal[w])]
  /\ InitCapture("part_007")
  /\ drive = NewDrive(DriveCfg(TRUE))
  /\ was = [wasCal |-> FALSE, wasAlign |-> FALSE]
  /\ call = NoCall
  /\ given = NotGiven
  /\ \E slew \in MotorSlews :
       wheel = [w \in Wheels |->
                  IF w = "R"
                  THEN [NewWheel(WheelCfg(TRUE)) EXCEPT
                          !.motor = NewMotor([MotorCfg EXCEPT !.slewRatePerSec = slew])]
                  ELSE NewWheel(WheelCfg(TRUE))]

NextPins ==
  \/ \E op \in WriterOps, dt \in MotorDts : PinsWriteIn1(op, dt)
  \/ PinsWriteIn2
  \/ \E u \in MotorCommands : PinsSetCommand(u)
  \/ PinsEnable

SpecPins == InitPins /\ [][NextPins]_vars

(***************************************************************************)
(* SpecPid: the PIDVel of part_002 in the two wheels of one program, with  *)
(* the same gains and limits, in either discretization mode and with the   *)
(* anti-windup on or off.  Each controller is first updated on its own,    *)
(* with inputs of its own; then both are reset to the same u0 and given    *)
(* the same inputs, right wheel first as Wheel::update is called.          *)
(* was.I is the static I of update(); call.ok says that both controllers   *)
(* have had the same reset and the same inputs since.                      *)
(***************************************************************************)
\* update() calls made in SpecPid
MaxPidCalls == 4

PidvCfg == [Kp |-> FRat(1, 2), Ki |-> F(1), Kd |-> FRat(1, 10), Tf |-> FRat(1, 10),
            Ts |-> FRat(1, 10), uMin |-> F(0), uMax |-> F(1)]

\* reference and measurement given to update(r, y)
PidInputs == {<<F(1), F(0)>>, <<F(1), FRat(1, 2)>>, <<F(0), F(1)>>}

\* initial outputs given to reset(u0), one of them outside the limits
PidResets == {F(0), FRat(1, 2), F(2)}

\* update(r, y) of the controller of wheel w alone
PidUpdate(w, r, y) ==
  /\ call.n < MaxPidCalls
  /\ \E u \in {PIDVel_update(wheel[w].pid, was.I, r, y)} :
       /\ wheel' = [wheel EXCEPT ![w].pid = u.pid]
       /\ was' = [was EXCEPT !.I = u.I]
  /\ call' = [NoCall EXCEPT !.op = "PIDVel::update", !.wheel = w, !.v = r, !.w = y,
                            !.ok = FALSE, !.n = call.n + 1]
  /\ UNCHANGED <<cal, nvs, enc, script, ret, runs, lastSaved, build, mux, isr, task,
                 lastConsumed, hist, drive, given>>

\* reset(u0) of both controllers
PidResetBoth(u0) ==
  /\ wheel' = [w \in Wheels |-> [wheel[w] EXCEPT !.pid = PIDVel_reset(@, u0)]]
  /\ call' = [NoCall EXCEPT !.op = "PIDVel::reset", !.v = u0, !.ok = TRUE, !.n = call.n]
  /\ UNCHANGED <<cal, nvs, enc, script, ret, runs, lastSaved, build, mux, isr, task,
                 lastConsumed, hist, drive, was, given>>

\* update(r, y) of the right and then of the left controller, both of which
\* have had the same reset and the same inputs since
PidUpdateBoth(r, y) ==
  /\ call.ok
  /\ call.n < MaxPidCalls
  /\ \E uR \in {PIDVel_update(wheel["R"].pid, was.I, r, y)} :
       \E uL \in {PIDVel_update(wheel["L"].pid, uR.I, r, y)} :
         /\ wheel' = [wheel EXCEPT !["R"].pid = uR.pid, !["L"].pid = uL.pid]
         /\ was' = [was EXCEPT !.I = uL.I]
  /\ call' = [NoCall EXCEPT !.op = "PIDVel::update", !.wheel = "L", !.v = r, !.w = y,
                            !.ok = TRUE, !.n = call.n + 1]
  /\ UNCHANGED <<cal, nvs, enc, script, ret, runs, lastSaved, build, mux, isr, task,
                 lastConsumed, hist, drive, given>>

InitPid ==
  /\ nvs = [w \in Wheels |-> EmptyStore]
  /\ cal = [w \in Wheels |-> load(NewCalibrator(CalCfg), nvs[w])]
  /\ enc = [w \in Wheels |-> NewEncoder(EncCfg)]
  /\ script = NoScript
  /\ ret = RetNone
  /\ runs = [w \in Wheels |-> 0]
  /\ lastSaved = [w \in Wheels |-> NeverSaved(cal[w])]
  /\ InitCapture("part_007")
  /\ drive = NewDrive(DriveCfg(TRUE))
  /\ was = [wasCal |-> FALSE, wasAlign |-> FALSE, I |-> F(0)]
  /\ call = NoCall
  /\ given = NotGiven
  /\ \E m \in {"PI_Tustin", "PIDF_Tustin"} : \E aw \in BOOLEAN :
       wheel = [w \in Wheels |->
                  [NewWheel(WheelCfg(TRUE)) EXCEPT
                     !.pid = setAntiWindup(setDiscretization(NewPIDVel(PidvCfg), m), aw)]]

NextPid ==
  \/ \E w \in Wheels : \E in \in PidInputs : PidUpdate(w, in[1], in[2])
  \/ \E u0 \in PidResets : PidResetBoth(u0)
  \/ \E in \in PidInputs : PidUpdateBoth(in[1], in[2])

SpecPid == InitPid /\ [][NextPid]_vars

(***************************************************************************)
(* TrajectoryRunner (src/TrajectoryRunner.cpp): a turn on the spot and     *)
(* then a straight run, each under a symmetric trapezoid of speed.         *)
(***************************************************************************)
\* TrajectoryRunner::Config as the header initialises it
RunnerCfg ==
  [vMaxDefault |-> FRat(1, 2), wMaxDefault |-> F(3),
   vPeakScale |-> F(1), wPeakScale |-> F(1)]

\* PhasePlan as the header initialises it
NoPhasePlan ==
  [dq |-> F(0), peakReq |-> F(0), peakReal |-> F(0),
   t1 |-> F(0), t2 |-> F(0), tf |-> F(0), negSign |-> FALSE]

\* TrajectoryRunner after its constructor
NewRunner(cfg) ==
  [cfg |-> cfg, planRot |-> NoPhasePlan, planLin |-> NoPhasePlan,
   state |-> "Idle", t |-> F(0), v |-> F(0), w |-> F(0)]

\* computeSymmetricTrapezoid(p.dq, p.peakReq, p.peakReal, p.t1, p.t2, p.tf)
computeSymmetricTrapezoid(p) ==
  IF FLeq(p.dq, F(0)) \/ FLeq(p.peakReq, F(0))
  THEN [p EXCEPT !.peakReal = F(0), !.t1 = F(0), !.t2 = F(0), !.tf = F(0)]
  ELSE The({The({[p EXCEPT !.peakReal = p.peakReq,
                           !.t1 = t1_trap,
                           !.t2 = FMul(F(2), t1_trap),
                           !.tf = tf_trap] :
                   t1_trap \in {FDiv(tf_trap, F(3))}}) :
              tf_trap \in {FMul(FRat(3, 2), FDiv(p.dq, p.peakReq))}})

\* evalSymmetricTrapezoid(t, t1, t2, tf, qdotPeak)
evalSymmetricTrapezoid(t, t1, t2, tf, qdotPeak) ==
  IF FLeq(tf, F(0)) \/ FLeq(qdotPeak, F(0)) THEN F(0)
  ELSE IF FLeq(t, F(0)) THEN F(0)
  ELSE IF FLeq(tf, t) THEN F(0)
  ELSE IF FLess(t, t1) THEN FMul(qdotPeak, FDiv(t, t1))
  ELSE IF FLess(t, t2) THEN qdotPeak
  ELSE FMul(qdotPeak, FDiv(FSub(tf, t), FSub(tf, t2)))

\* _planPhase_(dq, peakReq, isRotation) on the phase plan p it selects
planPhase(p, dq, peakReq) ==
  computeSymmetricTrapezoid([p EXCEPT !.negSign = FLess(dq, F(0)),
                                      !.dq = FAbs(dq),
                                      !.peakReq = FAbs(peakReq)])

\* _beginRotation_()
beginRotation(tr) == [tr EXCEPT !.state = "Rotating", !.t = F(0)]

\* _beginAdvance_()
beginAdvance(tr) == [tr EXCEPT !.state = "Advancing", !.t = F(0)]

\* planRotateAdvance(dtheta, dist, wPeak, vPeak)
planRotateAdvance(tr, dtheta, dist, wPeak, vPeak) ==
  The({IF FLess(F(0), p.planRot.dq) THEN beginRotation(p)
       ELSE IF FLess(F(0), p.planLin.dq) THEN beginAdvance(p)
       ELSE [p EXCEPT !.state = "Done", !.v = F(0), !.w = F(0)] :
         p \in {[tr EXCEPT
                   !.planRot = planPhase(@, dtheta,
                                 IF FLeq(wPeak, F(0))
                                 THEN FMul(tr.cfg.wMaxDefault, tr.cfg.wPeakScale)
                                 ELSE wPeak),
                   !.planLin = planPhase(@, dist,
                                 IF FLeq(vPeak, F(0))
                                 THEN FMul(tr.cfg.vMaxDefault, tr.cfg.vPeakScale)
                                 ELSE vPeak)]}})

\* the runner's part of cancel()
Runner_cancel(tr) == [tr EXCEPT !.state = "Done", !.v = F(0), !.w = F(0)]

\* restart()
Runner_restart(tr) ==
  IF tr.state = "Rotating" THEN beginRotation([tr EXCEPT !.t = F(0)])
  ELSE IF tr.state = "Advancing" THEN beginAdvance([tr EXCEPT !.t = F(0)])
  ELSE tr

\* _advanceTime_(dt) whose Advancing branch leaves _w as it was
advanceTime_keepW(tr, dt) ==
  The({IF a.state = "Rotating"
       THEN The({IF FLeq(r.planRot.tf, r.t)
                 THEN IF FLess(F(0), r.planLin.dq)
                      THEN beginAdvance([r EXCEPT !.w = F(0)])
                      ELSE [r EXCEPT !.w = F(0), !.state = "Done"]
                 ELSE r :
                   r \in {[a EXCEPT
                             !.w = The({IF a.planRot.negSign THEN FNeg(w_mag) ELSE w_mag :
                                          w_mag \in {evalSymmetricTrapezoid(
                                                       a.t, a.planRot.t1, a.planRot.t2,
                                                       a.planRot.tf, a.planRot.peakReal)}}),
                             !.v = F(0)]}})
       ELSE IF a.state = "Advancing"
       THEN The({IF FLeq(r.planLin.tf, r.t)
                 THEN [r EXCEPT !.v = F(0), !.state = "Done"]
                 ELSE r :
                   r \in {[a EXCEPT
                             !.v = The({IF a.planLin.negSign THEN FNeg(v_mag) ELSE v_mag :
                                          v_mag \in {evalSymmetricTrapezoid(
                                                       a.t, a.planLin.t1, a.planLin.t2,
                                                       a.planLin.tf, a.planLin.peakReal)}})]}})
       ELSE a :
         a \in {[tr EXCEPT !.t = FAdd(@, dt)]}})

\* _advanceTime_(dt)
advanceTime(tr, dt) ==
  The({IF a.state = "Rotating"
       THEN The({IF FLeq(r.planRot.tf, r.t)
                 THEN IF FLess(F(0), r.planLin.dq)
                      THEN beginAdvance([r EXCEPT !.w = F(0)])
                      ELSE [r EXCEPT !.w = F(0), !.state = "Done"]
                 ELSE r :
                   r \in {[a EXCEPT
                             !.w = The({IF a.planRot.negSign THEN FNeg(w_mag) ELSE w_mag :
                                          w_mag \in {evalSymmetricTrapezoid(
                                                       a.t, a.planRot.t1, a.planRot.t2,
                                                       a.planRot.tf, a.planRot.peakReal)}}),
                             !.v = F(0)]}})
       ELSE IF a.state = "Advancing"
       THEN The({IF FLeq(r.planLin.tf, r.t)
                 THEN [r EXCEPT !.v = F(0), !.state = "Done"]
                 ELSE r :
                   r \in {[a EXCEPT
                             !.v = The({IF a.planLin.negSign THEN FNeg(v_mag) ELSE v_mag :
                                          v_mag \in {evalSymmetricTrapezoid(
                                                       a.t, a.planLin.t1, a.planLin.t2,
                                                       a.planLin.tf, a.planLin.peakReal)}}),
                             !.w = F(0)]}})
       ELSE a :
         a \in {[tr EXCEPT !.t = FAdd(@, dt)]}})

\* update(dt_s) up to its call of _drive.update: the runner afterwards and
\* the twist <<v, w>> it hands to _drive.setTwist
Runner_update(tr, dt) ==
  IF tr.state = "Done" \/ tr.state = "Idle"
  THEN [runner |-> tr, v |-> F(0), w |-> F(0)]
  ELSE The({[runner |-> a, v |-> a.v, w |-> a.w] : a \in {advanceTime(tr, dt)}})

(***************************************************************************)
(* SpecTraj: a TrajectoryRunner on a begun drive.  The main loop plans     *)
(* manoeuvres (a turn, a run, both or neither; forwards or backwards; with *)
(* the default peaks or its own), cancels, restarts, and calls update()    *)
(* every tick.  No pulse arrives: the wheels stand on the bench.           *)
(***************************************************************************)

\* the manoeuvres planned: <<dtheta, dist, wPeak, vPeak>>
Plans ==
  {<<F(1), FRat(1, 5), F(0), F(0)>>,
   <<F(-1), F(0), F(0), F(0)>>,
   <<F(0), FRat(-1, 5), F(2), FRat(1, 4)>>,
   <<F(0), F(0), F(0), F(0)>>}

\* TrajectoryRunner::planRotateAdvance(dtheta, dist, wPeak, vPeak)
TrajPlan(dtheta, dist, wPeak, vPeak) ==
  /\ MayCall
  /\ script' = planRotateAdvance(script, dtheta, dist, wPeak, vPeak)
  /\ call' = [NoCall EXCEPT !.op = "planRotateAdvance", !.v = dist, !.w = dtheta,
                            !.from = script.state, !.n = call.n + 1]
  /\ ret' = [RetNone EXCEPT !.op = "Runner::planRotateAdvance"]
  /\ UNCHANGED <<wheel, enc, cal, nvs, lastConsumed, was, drive, runs, given>>
  /\ UNCHANGED <<lastSaved, build, mux, isr, task, hist>>

\* TrajectoryRunner::cancel()
TrajCancel ==
  /\ MayCall
  /\ script' = Runner_cancel(script)
  /\ \E r \in {setTwist(Robot, F(0), F(0))} : Becomes(r)
  /\ call' = [NoCall EXCEPT !.op = "cancel", !.from = script.state, !.n = call.n + 1]
  /\ ret' = [RetNone EXCEPT !.op = "Runner::cancel"]
  /\ UNCHANGED <<runs, given>>
  /\ UNCHANGED <<lastSaved, build, mux, isr, task, hist>>

\* TrajectoryRunner::restart()
TrajRestart ==
  /\ MayCall
  /\ script' = Runner_restart(script)
  /\ call' = [NoCall EXCEPT !.op = "restart", !.from = script.state, !.n = call.n + 1]
  /\ ret' = [RetNone EXCEPT !.op = "Runner::restart"]
  /\ UNCHANGED <<wheel, enc, cal, nvs, lastConsumed, was, drive, runs, given>>
  /\ UNCHANGED <<lastSaved, build, mux, isr, task, hist>>

\* TrajectoryRunner::update(dt_s): call.v, call.w keep the twist handed to
\* _drive.setTwist, call.from the state the runner was in
TrajUpdate(timedOut) ==
  /\ Begun
  /\ \E u \in {Runner_update(script, TickDt)} :
       /\ script' = u.runner
       /\ \E r1 \in {setTwist(Robot, u.v, u.w)} :
            \E r \in {Drive_update(r1, TickDt, timedOut)} : Becomes(r)
       /\ call' = [NoCall EXCEPT !.op = "Runner::update", !.v = u.v, !.w = u.w,
                                 !.from = script.state, !.n = call.n]
  /\ ret' = [RetNone EXCEPT !.op = "Runner::update"]
  /\ UNCHANGED <<runs, given>>
  /\ UNCHANGED <<lastSaved, build, mux, isr, task, hist>>

InitTraj ==
  /\ nvs = [w \in Wheels |-> EmptyStore]
  /\ cal = [w \in Wheels |-> NewCalibrator(CalCfg)]
  /\ enc = [w \in Wheels |-> NewEncoder(EncCfg)]
  /\ wheel = [w \in Wheels |-> NewWheel(WheelCfg(FALSE))]
  /\ \E clampTwist \in BOOLEAN : 
       drive = NewDrive([DriveCfg(FALSE) EXCEPT !.clampTwist = clampTwist])
  /\ was = [wasCal |-> FALSE, wasAlign |-> FALSE]
  /\ call = NoCall
  /\ given = NotGiven
  /\ script = NewRunner(RunnerCfg)
  /\ ret = RetNone
  /\ runs = [w \in Wheels |-> 0]
  /\ lastSaved = [w \in Wheels |-> NeverSaved(cal[w])]
  /\ InitCapture("part_007")

NextTraj ==
  \/ DriveBegin
  \/ \E p \in Plans : TrajPlan(p[1], p[2], p[3], p[4])
  \/ TrajCancel
  \/ TrajRestart
  \/ \E timedOut \in Timeouts : TrajUpdate(timedOut)

SpecTraj == InitTraj /\ [][NextTraj]_vars

(***************************************************************************)
(* SpecTwist: the drive under twists large enough for the wheel limit to   *)
(* bind, with and without the twist clamp and the rescaling; a coordinated *)
(* alignment can be started and aborted in between.                        *)
(***************************************************************************)

\* twists <<v, w>> given to setTwist
TwistInputs == {<<F(1), F(1)>>, <<FRat(3, 10), F(-4)>>, <<FRat(4, 5), F(6)>>}

\* the wheel limit configured, rad/s
WheelLimit == F(20)

InitTwist ==
  /\ nvs = [w \in Wheels |-> IF w = "R" THEN AlignStore ELSE EmptyStore]
  /\ cal = [w \in Wheels |-> NewCalibrator(CalCfg)]
  /\ enc = [w \in Wheels |-> NewEncoder(EncCfg)]
  /\ wheel = [w \in Wheels |-> NewWheel(WheelCfg(FALSE))]
  /\ \E clampTwist \in BOOLEAN : \E rescale \in BOOLEAN :
       drive = NewDrive([DriveCfg(FALSE) EXCEPT !.omegaWheelMax = WheelLimit,
                                                 !.clampTwist = clampTwist,
                                                 !.rescaleTwistToWheelLimit = rescale])
  /\ was = [wasCal |-> FALSE, wasAlign |-> FALSE]
  /\ call = NoCall
  /\ given = NotGiven
  /\ script = NoScript
  /\ ret = RetNone
  /\ runs = [w \in Wheels |-> 0]
  /\ lastSaved = [w \in Wheels |-> NeverSaved(cal[w])]
  /\ InitCapture("part_007")

NextTwist ==
  \/ DriveBegin
  \/ \E t \in TwistInputs : SetTwist(t[1], t[2])
  \/ Stop
  \/ Abort
  \/ StartCoordinatedAlignment(1, F(0))
  \/ \E timedOut \in Timeouts : Tick(timedOut)

SpecTwist == InitTwist /\ [][NextTwist]_vars

(***************************************************************************)
(* SpecLife: the calibrator of wheel R over its whole life.  Wheel::begin  *)
(* has loaded it from a store of any of the kinds above; afterwards it is  *)
(* loaded again, saved, cleared, and runs calibrations and alignments in   *)
(* either direction to their completion, in any order.                     *)
(***************************************************************************)
InitLife ==
  /\ nvs \in [Wheels -> {EmptyStore, AlignStore, LegacyStore}]
  /\ nvs["R"] # EmptyStore
  /\ nvs["L"] = EmptyStore
  /\ cal = [w \in Wheels |-> load(NewCalibrator(CalCfg), nvs[w])]
  /\ enc = [w \in Wheels |-> NewEncoder(EncCfg)]
  /\ script = NoScript
  /\ ret = RetNone
  /\ runs = [w \in Wheels |-> 0]
  /\ lastSaved = [w \in Wheels |-> NeverSaved(cal[w])]
  /\ InitCapture("part_007")
  /\ InitParked

NextLife ==
  \/ Load("R")
  \/ Save("R")
  \/ Clear("R")
  \/ \E dir \in {1, -1} : CalStartCalibrationDir("R", 1, dir)
  \/ CalStartAlignmentDir("R", 1, 1)
  \/ \E dt \in NextPeriods : ApplyPeriod("R", dt)

SpecLife == InitLife /\ [][NextLife]_vars

(***************************************************************************)
(* SpecDry: one calibration run of wheel R, of one or two laps in either   *)
(* direction, on a calibrator loaded from a store with a LUT per           *)
(* direction; a pulse may carry a zero period (part_000 hands the captured *)
(* period on as it is), so a run can end without a usable sample.          *)
(***************************************************************************)
InitDry ==
  /\ nvs = [w \in Wheels |-> IF w = "R" THEN AlignStore ELSE EmptyStore]
  /\ cal = [w \in Wheels |-> load(NewCalibrator(CalCfg), nvs[w])]
  /\ \E k0 \in 0 .. (PPR - 1) :
       enc = [w \in Wheels |->
                IF w = "R" THEN [NewEncoder(EncCfg) EXCEPT !.sectorIdx = k0]
                ELSE NewEncoder(EncCfg)]
  /\ script = NoScript
  /\ ret = RetNone
  /\ runs = [w \in Wheels |-> 0]
  /\ lastSaved = [w \in Wheels |-> NeverSaved(cal[w])]
  /\ InitCapture("part_000")
  /\ InitParked

NextDry ==
  \/ \E lapsN \in {1, 2}, dir \in {1, -1} : StartCalibration("R", lapsN, dir)
  \/ \E dt \in NextPeriodsOrZero : ApplyPeriod("R", dt)

SpecDry == InitDry /\ [][NextDry]_vars

(***************************************************************************)
(* SpecLive: coordinated calibrations under a main loop that keeps calling *)
(* update() and two wheels that keep pulsing.  update() uses the pulse     *)
(* counts only in cntSnap == lastConsumed and cntSnap - lastConsumed, and  *)
(* the ISR uses the time of the last pulse only in now - last, so the      *)
(* three 32-bit count words are kept relative to the smallest of them and  *)
(* each wheel's time of last pulse relative to the pulse before: a         *)
(* behaviour stands for the runs of the code whose words differ from it by *)
(* a common offset, and a run that never ends is a cycle.                  *)
(***************************************************************************)
\* microseconds between two pulses of a wheel in SpecLive
LiveGap == 2

\* pulses a wheel's count may be ahead of the smallest count in SpecLive
LiveAhead == 1

\* the smallest of the pulse counts and the count update() consumed last
Lowest(r) ==
  CHOOSE m \in {r.enc["R"].isrCount, r.enc["L"].isrCount, r.lastConsumed} :
    \A n \in {r.enc["R"].isrCount, r.enc["L"].isrCount, r.lastConsumed} : m <= n

\* the robot with its three count words relative to the smallest
Rebased(r) ==
  The({[r EXCEPT !.enc["R"].isrCount = @ - m, !.enc["L"].isrCount = @ - m,
                 !.lastConsumed = @ - m] : m \in {Lowest(r)}})

\* DifferentialDrive::update(dt_s) while both wheels keep pulsing: no pulse
\* timeout expires
LiveTick ==
  /\ Begun
  /\ \E d \in {Drive_update(Robot, TickDt, [w \in Wheels |-> FALSE])} :
       \E r \in {Rebased(d)} : Becomes(r)
  /\ call' = [NoCall EXCEPT !.op = "update", !.from = drive.coordState, !.n = call.n]
  /\ ret' = [RetNone EXCEPT !.op = "Drive::update"]
  /\ UNCHANGED <<runs, given>>
  /\ UNCHANGED restVars

\* an accepted pulse of wheel w, LiveGap microseconds after its last one:
\* the whole ISR; at most LiveAhead pulses of a wheel are ahead of the
\* smallest count
LivePulse(w) ==
  /\ Begun
  /\ enc[w].isrCount < LiveAhead
  /\ ~gapRejects(build, enc[w].cfg, enc[w].isrLastUs, enc[w].isrLastUs + LiveGap)
  /\ \E a \in {isrAccept(build, enc[w].isrLastUs, enc[w].isrLastUs + LiveGap)} :
       enc' = [enc EXCEPT ![w].isrLastUs = a.now - @,
                          ![w].isrPeriodUs = IF a.period # 0 THEN a.period ELSE @,
                          ![w].isrCount = @ + 1]
  /\ UNCHANGED <<cal, nvs, script, ret, runs, lastSaved, build, mux, isr, task,
                 lastConsumed, hist>>
  /\ UNCHANGED drvVars

\* the main loop starts a coordinated calibration of one lap while none runs
LiveStart ==
  /\ ~isCoordinatedRoutineRunning(drive)
  /\ StartCoordinatedCalibration(1, F(0))

InitLive ==
  /\ nvs = [w \in Wheels |-> EmptyStore]
  /\ cal = [w \in Wheels |-> NewCalibrator(CalCfg)]
  /\ enc = [w \in Wheels |-> NewEncoder(EncCfg)]
  /\ wheel = [w \in Wheels |-> NewWheel(WheelCfg(FALSE))]
  /\ drive = NewDrive(DriveCfg(FALSE))
  /\ was = [wasCal |-> FALSE, wasAlign |-> FALSE]
  /\ call = NoCall
  /\ given = NotGiven
  /\ script = NoScript
  /\ ret = RetNone
  /\ runs = [w \in Wheels |-> 0]
  /\ lastSaved = [w \in Wheels |-> NeverSaved(cal[w])]
  /\ InitCapture("part_007")

NextLive ==
  \/ DriveBegin
  \/ LiveStart
  \/ LiveTick
  \/ \E w \in Wheels : LivePulse(w)

\* the main loop keeps calling update() and each wheel keeps pulsing
SpecLive ==
  /\ InitLive
  /\ [][NextLive]_vars
  /\ WF_vars(LiveTick)
  /\ \A w \in Wheels : WF_vars(LivePulse(w))

(***************************************************************************)
(* Calibration results (SpecCalib)                                         *)
(***************************************************************************)
\* the step just taken closed a calibration run with finishCalibrationIfReady() = true
CalibDone == ret.op = "applyPeriod" /\ ret.calDone

\* the LUT of the direction the run was started in
RunLUT(c) == IF c.modeDir >= 0 THEN c.lutFwd ELSE c.lutRev

\* arithmetic mean of f[0 .. n-1]
MeanOf(f, n) == FDiv(FSumTo(f, n), F(n))

\* the laps of the run in which sector k received a sample
RecordedLaps(c, k) ==
  {j \in 0 .. (c.calibTargetN - 1) : c.dtFilled[idx2D(k, j, c.cfg.ppr)]}

RecordedSample(c, k, j) == c.dtBuf[idx2D(k, j, c.cfg.ppr)]

RECURSIVE SumOfSamples(_, _, _)
SumOfSamples(c, k, J) ==
  IF J = {} THEN F(0)
  ELSE The({FAdd(RecordedSample(c, k, j), SumOfSamples(c, k, J \ {j})) :
              j \in {CHOOSE i \in J : TRUE}})

SmallestSample(c, k, J) ==
  RecordedSample(c, k, CHOOSE i \in J :
    \A j \in J : FLeq(RecordedSample(c, k, i), RecordedSample(c, k, j)))

LargestSample(c, k, J) ==
  RecordedSample(c, k, CHOOSE i \in J :
    \A j \in J : FLeq(RecordedSample(c, k, j), RecordedSample(c, k, i)))

\* m_k as the specification defines it: the plain mean of up to two samples,
\* otherwise the mean of what is left without one minimum and one maximum
StatedSectorMean(c, k) ==
  The({IF J = {} THEN F(0)
       ELSE IF Cardinality(J) <= 2 THEN FDiv(SumOfSamples(c, k, J), F(Cardinality(J)))
       ELSE FDiv(FSub(FSub(SumOfSamples(c, k, J), SmallestSample(c, k, J)),
                      LargestSample(c, k, J)),
                 F(Cardinality(J) - 2)) :
         J \in {RecordedLaps(c, k)}})

RECURSIVE SumOfMeans(_, _)
SumOfMeans(m, K) ==
  IF K = {} THEN F(0)
  ELSE The({FAdd(m[k], SumOfMeans(m, K \ {k})) : k \in {CHOOSE i \in K : TRUE}})

\* G as the specification defines it: the mean of m_k over the sectors that have one
StatedGlobalMean(m) ==
  The({FDiv(SumOfMeans(m, K), F(Cardinality(K))) :
         K \in {{k \in DOMAIN m : FLess(F(0), m[k])}}})

\* the LUT the specification states for the samples recorded in c
StatedLUT(c) ==
  The({The({[k \in DOMAIN m |-> IF FLeq(m[k], F(0)) THEN F(1) ELSE FDiv(G, m[k])] :
              G \in {StatedGlobalMean(m)}}) :
         m \in {[k \in 0 .. (c.cfg.ppr - 1) |-> StatedSectorMean(c, k)]}})

\* the run of the PPR = 4, three-lap example has just completed
ScenarioCalibDone == CalibDone /\ script.on /\ script.tape = <<>>

\* C1 as stated: after a successful calibration run in direction d the
\* arithmetic mean over all sectors of s_d[k] is 1.0
C1_MeanOfFactorsIsOne ==
  CalibDone =>
    \A c \in {cal[ret.w]} : MeanOf(RunLUT(c), c.cfg.ppr) = F(1)

\* C1 (amended): after a successful calibration run in direction d, fed with
\* positive period samples, every s_d[k] is positive and the arithmetic mean
\* over all sectors of 1 / s_d[k] is 1.0
C1_MeanOfInverseFactorsIsOne ==
  CalibDone =>
    \A c \in {cal[ret.w]} :
      /\ \A k \in 0 .. (c.cfg.ppr - 1) : FLess(F(0), RunLUT(c)[k])
      /\ MeanOf([k \in 0 .. (c.cfg.ppr - 1) |-> FDiv(F(1), RunLUT(c)[k])],
                c.cfg.ppr) = F(1)

\* a calibration run has completed with factors that are not all equal
C1_Witness ==
  /\ CalibDone
  /\ \E k \in 0 .. (cal[ret.w].cfg.ppr - 1) :
       FLess(RunLUT(cal[ret.w])[k], RunLUT(cal[ret.w])[0])

\* C5: when a calibration run completes, s_dir[k] = G / m_k for every sector,
\* with m_k the trimmed mean of the sector's samples and G the mean of the
\* m_k over the sectors that have one, and 1 for a sector without a mean; the
\* rows (100,110,105), (200,220,210), (100,110,105), (100,110,105) give
\* m = (105, 210, 105, 105), G = 131.25 and s_fwd = (1.25, 0.625, 1.25, 1.25)
C5_FactorsAreGlobalOverSectorMean ==
  /\ CalibDone =>
       \A c \in {cal[ret.w]} :
         /\ RunLUT(c) = StatedLUT(c)
         /\ \A k \in 0 .. (c.cfg.ppr - 1) :
              sectorMeanOf(c, k) = StatedSectorMean(c, k)
  /\ ScenarioCalibDone =>
       \A c \in {cal[ret.w]} :
         /\ [k \in 0 .. 3 |-> StatedSectorMean(c, k)] =
              (0 :> F(105) @@ 1 :> F(210) @@ 2 :> F(105) @@ 3 :> F(105))
         /\ StatedGlobalMean([k \in 0 .. 3 |-> StatedSectorMean(c, k)]) = FRat(525, 4)
         /\ c.lutFwd = (0 :> FRat(5, 4) @@ 1 :> FRat(5, 8) @@ 2 :> FRat(5, 4) @@ 3 :> FRat(5, 4))

\* the example run has completed, having trimmed three samples of one sector
\* that are not all equal
C5_Witness ==
  /\ ScenarioCalibDone
  /\ \E k \in 0 .. (cal[ret.w].cfg.ppr - 1) :
          /\ Cardinality(RecordedLaps(cal[ret.w], k)) >= 3
          /\ FLess(SmallestSample(cal[ret.w], k, RecordedLaps(cal[ret.w], k)),
                   LargestSample(cal[ret.w], k, RecordedLaps(cal[ret.w], k)))

(***************************************************************************)
(* Alignment results (SpecAlign)                                           *)
(***************************************************************************)
\* the step just taken closed an alignment run with finishAlignmentIfReady() = true
AlignDone == ret.op = "applyPeriod" /\ ret.alignDone

\* the run of the PPR = 4 single-lap example has just completed
ScenarioAlignDone == AlignDone /\ script.on /\ script.tape = <<>>

RunOffset(c) == IF c.modeDir >= 0 THEN c.offFwd ELSE c.offRev

RunPattern(c) == IF c.modeDir >= 0 THEN c.patFwd ELSE c.patRev

\* the offset record of the run's direction in the store
StoredRunOffset(c, st) == IF c.modeDir >= 0 THEN st.off_fwd ELSE st.off_rev

LapSum(c, j) == FSumTo(lapRow(c, j), c.cfg.ppr)

\* sum over k of |lap[k] / mean(lap) - p[(k + s) mod PPR]|, divided by PPR
StatedL1(lap, p, s, ppr) ==
  The({MeanOf([k \in 0 .. (ppr - 1) |-> FAbsDiff(FDiv(lap[k], mean), p[(k + s) % ppr])],
              ppr) :
         mean \in {MeanOf(lap, ppr)}})

\* the alignment of a single recorded lap: the offset is stored and returned,
\* no shift has a smaller L1 distance, and the score is that distance
SingleLapAligned ==
  (AlignDone /\ cal[ret.w].alignTargetN = 1 /\ FLess(F(0), LapSum(cal[ret.w], 0))) =>
    \A c \in {cal[ret.w]} :
      \A d \in {[s \in 0 .. (c.cfg.ppr - 1) |->
                   StatedL1(lapRow(c, 0), RunPattern(c), s, c.cfg.ppr)]} :
        /\ RunOffset(c) = ret.off
        /\ StoredRunOffset(c, nvs[ret.w]) = putUShort(ret.off)
        /\ ret.off \in DOMAIN d
        /\ \A s \in DOMAIN d : FLeq(d[ret.off], d[s])
        /\ ret.score = d[ret.off]

\* C6 as stated: a single lap is aligned to the shift of least L1 distance,
\* stored as off_dir and returned with that distance as the score; pattern
\* (2, 1, 1, 1) mean-normalised and lap (1, 1, 1.25, 0.625) give off_fwd = 2
\* with best_score = 0
C6_ExampleScoreZero ==
  /\ SingleLapAligned
  /\ ScenarioAlignDone => (cal[ret.w].offFwd = 2 /\ ret.score = F(0))

\* C6 (amended): a single lap is aligned to the shift of least L1 distance,
\* stored as off_dir and returned with that distance as the score; pattern
\* (2, 1, 1, 1) mean-normalised and lap (1, 1, 1.25, 0.625) give off_fwd = 2
\* with best_score = 36/155 (about 0.232)
C6_LeastL1Shift ==
  /\ SingleLapAligned
  /\ ScenarioAlignDone => (cal[ret.w].offFwd = 2 /\ ret.score = FRat(36, 155))

\* the example run has completed with the pattern (2, 1, 1, 1) / mean
C6_Witness ==
  /\ ScenarioAlignDone
  /\ cal[ret.w].alignTargetN = 1
  /\ cal[ret.w].patFwd = (0 :> FRat(8, 5) @@ 1 :> FRat(4, 5) @@ 2 :> FRat(4, 5) @@ 3 :> FRat(4, 5))
  /\ lapRow(cal[ret.w], 0) = (0 :> F(1) @@ 1 :> F(1) @@ 2 :> FRat(5, 4) @@ 3 :> FRat(5, 8))

\* the laps of the run that produced a vote
VotingLaps(c) == {j \in 0 .. (c.alignTargetN - 1) : FLess(F(0), LapSum(c, j))}

\* per voting lap, its best shift and score
LapBest(c) == [j \in VotingLaps(c) |-> bestOffsetSingleLap(c, j, c.modeDir >= 0)]

VotesFor(best, s) == Cardinality({j \in DOMAIN best : best[j].bestOff = s})

\* the shifts with the most votes
Plurality(best, ppr) ==
  {s \in 0 .. (ppr - 1) : \A t \in 0 .. (ppr - 1) : VotesFor(best, t) <= VotesFor(best, s)}

\* the best shifts of the laps with the lowest score
LowestScoreShifts(best) ==
  {best[j].bestOff : j \in {i \in DOMAIN best :
                              \A h \in DOMAIN best : FLeq(best[i].bestScore, best[h].bestScore)}}

\* C7: the stored offset is the shift with the plurality of the per-lap best
\* shifts; when shifts tie for the most votes it is the best shift of the lap
\* with the lowest score
C7_PluralityOrBestLap ==
  AlignDone =>
    \A c \in {cal[ret.w]} :
      \A best \in {LapBest(c)} :
        (DOMAIN best # {}) =>
          \A top \in {Plurality(best, c.cfg.ppr)} :
            IF Cardinality(top) = 1 THEN RunOffset(c) \in top
            ELSE RunOffset(c) \in LowestScoreShifts(best)

\* C8: when every recorded lap of a completed alignment run has a period
\* sum <= 0, off_fwd and off_rev keep, in memory and in the store, the values
\* they had before the run
C8_ZeroSumKeepsOffset ==
  [][ (/\ ret'.op = "applyPeriod"
       /\ ret'.alignDone
       /\ VotingLaps(cal'[ret'.w]) = {})
      => (/\ cal'[ret'.w].offFwd = cal[ret'.w].offFwd
          /\ cal'[ret'.w].offRev = cal[ret'.w].offRev
          /\ nvs'[ret'.w].off_fwd = nvs[ret'.w].off_fwd
          /\ nvs'[ret'.w].off_rev = nvs[ret'.w].off_rev) ]_vars

(***************************************************************************)
(* Persistence and correction (SpecStore)                                  *)
(***************************************************************************)
\* C4: correctDt(k, dt, step_dir) returns dt * s_dir[(k + off_dir) mod PPR]
\* when use_dir is set and dt when it is not, dir being forward for
\* step_dir >= 0 and reverse otherwise, and the call changes no calibrator state
C4_CorrectDtScalesBySector ==
  [][ ret'.op = "correctDt" =>
        \E c \in {cal[ret'.w]} :
          /\ ret'.k \in 0 .. (c.cfg.ppr - 1)
          /\ ret'.dir >= 0 =>
               ret'.val = IF c.useFwd
                          THEN FMul(ret'.dt, c.lutFwd[(ret'.k + c.offFwd) % c.cfg.ppr])
                          ELSE ret'.dt
          /\ ret'.dir < 0 =>
               ret'.val = IF c.useRev
                          THEN FMul(ret'.dt, c.lutRev[(ret'.k + c.offRev) % c.cfg.ppr])
                          ELSE ret'.dt
          /\ cal' = cal
          /\ nvs' = nvs ]_vars

\* a period was corrected by a factor other than 1, read past the end of the
\* LUT and wrapped, and one was returned as it is because the flag is off
C4_Witness ==
  /\ ret.op = "correctDt"
  /\ \/ /\ ret.dir >= 0
        /\ cal[ret.w].useFwd
        /\ ret.k + cal[ret.w].offFwd >= cal[ret.w].cfg.ppr
        /\ cal[ret.w].offFwd > 0
        /\ ret.val # ret.dt
     \/ /\ ret.dir < 0
        /\ cal[ret.w].useRev
        /\ cal[ret.w].offRev > 0
        /\ ret.val # ret.dt

\* C9: in every reachable state off_fwd and off_rev lie in [0, PPR)
C9_OffsetsInRange ==
  \A w \in Wheels :
    /\ cal[w].offFwd \in 0 .. (cal[w].cfg.ppr - 1)
    /\ cal[w].offRev \in 0 .. (cal[w].cfg.ppr - 1)

\* the fields save() persists
Persisted(c) ==
  [lutFwd |-> c.lutFwd, lutRev |-> c.lutRev, useFwd |-> c.useFwd, useRev |-> c.useRev,
   offFwd |-> c.offFwd, offRev |-> c.offRev,
   patFwd |-> c.patFwd, patRev |-> c.patRev,
   patFwdReady |-> c.patFwdReady, patRevReady |-> c.patRevReady]

\* C10: a load() of the store that follows a save(), whatever was done to the
\* calibrator in between and also across a restart, restores s_fwd, s_rev,
\* use_fwd, use_rev, off_fwd and off_rev to the saved values and rebuilds the
\* patterns save() built
C10_SaveLoadRoundTrip ==
  \A w \in Wheels :
    (ret.op \in {"load", "powerCycle"} /\ ret.w = w /\ lastSaved[w].valid) =>
      Persisted(cal[w]) = Persisted(lastSaved[w].cal)

\* a state with a LUT other than 1.0, a nonzero offset and a flag off was
\* saved, changed in memory, and loaded back
C10_Witness ==
  /\ ret.op \in {"load", "powerCycle"}
  /\ lastSaved[ret.w].valid
  /\ cal[ret.w].offFwd > 0
  /\ cal[ret.w].lutFwd # Ones(cal[ret.w].cfg.ppr)
  /\ ~cal[ret.w].useRev

\* the store holds the two records of the single-LUT layout, the LUT with
\* ppr floats, and no LUT record of the dual layout
LegacyOnly(st, ppr) ==
  /\ ~st.lut_fwd.has
  /\ ~st.lut_rev.has
  /\ st.lut.has /\ st.lut.len = ppr
  /\ st.use_lut.has

\* the pattern of a LUT: p[k] = (1 / s[k]) / mean(1 / s)
StatedPattern(lut, ppr) ==
  The({[k \in 0 .. (ppr - 1) |-> FDiv(inv[k], MeanOf(inv, ppr))] :
         inv \in {[k \in 0 .. (ppr - 1) |-> FDiv(F(1), lut[k])]}})

\* C11: load() of a store that holds no forward and no reverse LUT record
\* but a legacy lut record of PPR floats with use_lut sets s_fwd to the
\* legacy LUT, s_rev to 1.0, both use flags to the legacy flag, both offsets
\* to 0, and rebuilds both patterns from those LUTs
C11_LegacyMigration ==
  \A w \in Wheels :
    (ret.op \in {"load", "powerCycle"} /\ ret.w = w
       /\ LegacyOnly(nvs[w], cal[w].cfg.ppr)) =>
      \A c \in {cal[w]} :
        /\ c.lutFwd = nvs[w].lut.v
        /\ c.lutRev = Ones(c.cfg.ppr)
        /\ c.useFwd = nvs[w].use_lut.v
        /\ c.useRev = nvs[w].use_lut.v
        /\ c.offFwd = 0
        /\ c.offRev = 0
        /\ c.patFwd = StatedPattern(c.lutFwd, c.cfg.ppr)
        /\ c.patRev = StatedPattern(c.lutRev, c.cfg.ppr)

\* a legacy store whose flag is off and whose LUT is not 1.0 was loaded into
\* a calibrator whose flags had been set in memory
C11_Witness ==
  /\ ret.op = "load"
  /\ LegacyOnly(nvs[ret.w], cal[ret.w].cfg.ppr)
  /\ ~nvs[ret.w].use_lut.v
  /\ ~cal[ret.w].useFwd
  /\ cal[ret.w].lutFwd # Ones(cal[ret.w].cfg.ppr)
  /\ cal[ret.w].patFwdReady

(***************************************************************************)
(* Starting a routine (SpecStart)                                          *)
(***************************************************************************)
StartOps == {"startCalibrationDir", "startAlignmentDir",
             "Wheel::startCalibration", "Wheel::startAlignment"}

AlignOps == {"startAlignmentDir", "Wheel::startAlignment"}

\* the pattern of direction dir is ready
PatternReadyFor(c, dir) == IF dir >= 0 THEN c.patFwdReady ELSE c.patRevReady

\* the start asked for cannot be made: no laps, too many laps, or an alignment
\* in a direction whose pattern is not ready
InvalidStart(c, op, lapsN, dir) ==
  \/ lapsN = 0
  \/ lapsN > c.cfg.maxLaps
  \/ op \in AlignOps /\ ~PatternReadyFor(c, dir)

\* C12: a start with lapsN = 0 or lapsN > maxLaps, and a start of an alignment
\* whose direction has no ready pattern, returns false and leaves the
\* calibrators, the wheels (motor command included), the estimators and the
\* stores as they were, also while another run is in progress
C12_FailedStartChangesNothing ==
  [][ (ret'.op \in StartOps
       /\ InvalidStart(cal[call'.wheel], call'.op, call'.lapsN, call'.dir))
      => /\ ~call'.ok
         /\ UNCHANGED <<cal, wheel, enc, nvs, drive, was, lastConsumed>> ]_vars

\* an alignment through the wheel has just been refused for its pattern, with a
\* valid lap count, while a calibration of the wheel has recorded periods
C12_Witness ==
  /\ ret.op = "Wheel::startAlignment"
  /\ ~ret.ok
  /\ call.lapsN = 1
  /\ ~PatternReadyFor(cal["R"], wheel["R"].dir)
  /\ wheel["R"].routineDir # wheel["R"].dir
  /\ cal["R"].calibActive
  /\ \E i \in DOMAIN cal["R"].dtFilled : cal["R"].dtFilled[i]

\* the LUT of direction d
LutOf(c, d) == IF d >= 0 THEN c.lutFwd ELSE c.lutRev

\* the offset of direction d
OffsetOf(c, d) == IF d >= 0 THEN c.offFwd ELSE c.offRev

\* the records of direction d in the store: LUT and offset
StoredLutOf(st, d) == IF d >= 0 THEN st.lut_fwd ELSE st.lut_rev

StoredOffsetOf(st, d) == IF d >= 0 THEN st.off_fwd ELSE st.off_rev

\* C14: the completion of a calibration run leaves the LUT of the direction
\* opposite to the one given at its start as it was and stores the LUT of
\* the given direction; the completion of an alignment run does the same
\* with the offsets and the direction given at the alignment's start; also
\* when a calibration and an alignment of opposite directions overlap
C14_CompletionWritesGivenDirection ==
  [][ ret'.op = "applyPeriod" =>
        \A w \in {ret'.w} :
          /\ ret'.calDone =>
                /\ LutOf(cal'[w], -given[w].calib) = LutOf(cal[w], -given[w].calib)
                /\ StoredLutOf(nvs'[w], given[w].calib)
                     = putBytes(LutOf(cal'[w], given[w].calib), cal[w].cfg.ppr)
          /\ ret'.alignDone =>
                /\ OffsetOf(cal'[w], -given[w].align) = OffsetOf(cal[w], -given[w].align)
                /\ OffsetOf(cal'[w], given[w].align) = ret'.off
                /\ StoredOffsetOf(nvs'[w], given[w].align) = putUShort(ret'.off) ]_vars

(***************************************************************************)
(* The drive and its coordinated routines (SpecDrive)                      *)
(***************************************************************************)
\* no pulse arrives in the step
IsrQuiet == \A w \in Wheels : enc'[w].isrCount = enc[w].isrCount

\* the step is the call op of the main loop on the drive
CallStep(op) == call'.op = op /\ call'.n = call.n + 1

\* the step is an update() of the drive
TickStep == call'.op = "update" /\ call'.n = call.n /\ IsrQuiet

CoordStartStep ==
  CallStep("startCoordinatedAlignment") \/ CallStep("startCoordinatedCalibration")

\* a routine of wheel w is active
RoutineActive(c) == c.calibActive \/ c.alignActive

\* the wheel whose routine a coordinated start begins with
FirstWheel(op) ==
  IF op = "startCoordinatedCalibration" \/ patternReady(cal["R"]) THEN "R" ELSE "L"

\* the routine op asks for can be started on wheel w with lapsN laps
CanStart(op, w, lapsN) ==
  /\ lapsN # 0
  /\ lapsN <= cal[w].cfg.maxLaps
  /\ op = "startCoordinatedAlignment" => PatternReadyFor(cal[w], wheel[w].dir)

\* the routine op asks for has just been started on calibrator c with lapsN laps
FreshlyStarted(op, c, lapsN) ==
  IF op = "startCoordinatedCalibration"
  THEN c.calibActive /\ c.calibTargetN = lapsN /\ c.calibLap = 0
  ELSE c.alignActive /\ c.alignTargetN = lapsN /\ c.alignLap = 0

\* C13: a coordinated start returns true only if the routine of its first
\* wheel has been started; when that routine cannot be started (no laps, more
\* than maxLaps, no pattern for the wheel's direction) it returns false and
\* leaves the coordinator Idle and the drive and the wheels as they were
C13_CoordinatedStartReportsFailure ==
  [][ (CoordStartStep /\ ~isCoordinatedRoutineRunning(drive)) =>
        \A w \in {FirstWheel(call'.op)} :
          /\ call'.ok => FreshlyStarted(call'.op, cal'[w], call'.lapsN)
          /\ ~CanStart(call'.op, w, call'.lapsN) =>
                /\ ~call'.ok
                /\ ~isCoordinatedRoutineRunning(drive')
                /\ drive' = drive
                /\ wheel' = wheel ]_vars

\* the command the assist holds on a wheel for its routine direction
AssistCommand(x) == IF x.routineDir >= 0 THEN x.cfg.assistU ELSE FNeg(x.cfg.assistU)

\* C15: at the end of every Wheel::update made while a routine started with
\* the assist is in progress, the motor target is +assistU or -assistU
\* according to routineDir: the PID output does not reach the motor
C15_AssistOverridesPID ==
  call.op = "update" =>
    \A w \in Wheels :
      (RoutineActive(cal[w]) /\ wheel[w].assistMode # "AssistNone") =>
        wheel[w].motor.uTarget = AssistCommand(wheel[w])

\* C16: the Wheel::update that sees a routine started with the assist end
\* (the wheel's calibrator active before the tick, idle after it) restores the
\* motor target saved at the start and sets the assist mode to None; this for
\* each of the two wheels, both updated in every tick
C16_AssistRestoredAtEnd ==
  [][ TickStep =>
        \A w \in Wheels :
          ( /\ wheel[w].assistMode # "AssistNone"
            /\ RoutineActive(cal[w])
            /\ ~RoutineActive(cal'[w]) ) =>
              /\ wheel'[w].assistMode = "AssistNone"
              /\ wheel'[w].motor.uTarget = clamp1(wheel[w].assistPrevU) ]_vars

\* the wheel a coordinated sub-phase calibrates or aligns
PhaseWheel(st) == IF st \in {"CoordAlignR", "CoordCalibR"} THEN "R" ELSE "L"

\* the routine of coordinated sub-phase st is active on calibrator c
PhaseRoutineActive(st, c) ==
  IF st \in {"CoordAlignR", "CoordAlignL"} THEN c.alignActive ELSE c.calibActive

\* C17: in a coordinated sub-phase, while the sub-phase's routine is active on
\* the sub-phase's wheel, the routine's recorded direction is forward and an
\* update made in that sub-phase has published no negative omega reference
\* to that wheel
C17_CoordinatedWheelTurnsForward ==
  isCoordinatedRoutineRunning(drive) =>
    \A w \in {PhaseWheel(drive.coordState)} :
      PhaseRoutineActive(drive.coordState, cal[w]) =>
        /\ wheel[w].routineDir = 1
        /\ cal[w].modeDir = 1
        /\ (call.op = "update" /\ call.from = drive.coordState) =>
              FLeq(F(0), wheel[w].omegaRef)

\* the order of the sub-phases: the pairs (from, to) of a coordinator step
SubPhaseOrder ==
  {<<"CoordIdle", "CoordAlignR">>, <<"CoordIdle", "CoordAlignL">>,
   <<"CoordAlignR", "CoordAlignL">>, <<"CoordAlignR", "CoordIdle">>,
   <<"CoordAlignL", "CoordIdle">>,
   <<"CoordIdle", "CoordCalibR">>, <<"CoordCalibR", "CoordCalibL">>,
   <<"CoordCalibL", "CoordIdle">>}

\* C18: the coordinator goes AlignR, AlignL, Idle (a wheel without a ready
\* pattern is skipped, and only such a wheel) or CalibR, CalibL, Idle; apart
\* from abort it leaves a sub-phase only in an update after which that
\* sub-phase's wheel reports its routine no longer active
C18_SubPhaseOrder ==
  [][ drive'.coordState # drive.coordState =>
        \/ /\ CallStep("abortCoordinatedRoutine")
           /\ drive'.coordState = "CoordIdle"
        \/ /\ <<drive.coordState, drive'.coordState>> \in SubPhaseOrder
           /\ isCoordinatedRoutineRunning(drive) =>
                /\ TickStep
                /\ ~PhaseRoutineActive(drive.coordState,
                                       cal'[PhaseWheel(drive.coordState)])
           /\ drive.coordState = "CoordAlignR" =>
                (drive'.coordState = "CoordIdle" <=> ~patternReady(cal'["L"]))
           /\ drive'.coordState = "CoordAlignL" /\ drive.coordState = "CoordIdle" =>
                ~patternReady(cal["R"]) ]_vars

\* an update has taken a coordinated alignment from the right wheel, whose
\* alignment ran its laps, to the left wheel
C18_Witness ==
  /\ call.op = "update"
  /\ call.from = "CoordAlignR"
  /\ drive.coordState = "CoordAlignL"
  /\ cal["R"].alignLap = cal["R"].alignTargetN
  /\ cal["R"].alignTargetN >= 1
  /\ cal["L"].alignActive

\* the spin of the running sub-phase: +coordW for the right wheel's phases,
\* -coordW for the left wheel's
SpinOf(d) == IF PhaseWheel(d.coordState) = "R" THEN d.coordW ELSE FNeg(d.coordW)

\* C19: while a coordinated routine is running, setTwist and stop leave v_ref,
\* w_ref and every other variable of the drive and of the wheels unchanged,
\* and an update sets the twist references from the routine's spin alone
C19_TwistIgnoredWhileCoordinated ==
  /\ [][ ((CallStep("setTwist") \/ CallStep("stop")) /\ isCoordinatedRoutineRunning(drive)) =>
        /\ drive' = drive
        /\ UNCHANGED <<wheel, enc, cal, nvs, was, lastConsumed>> ]_vars
  /\ [][ (TickStep /\ isCoordinatedRoutineRunning(drive)) =>
            /\ drive'.vRef = F(0)
            /\ \/ drive'.wRef = SpinOf(drive)
               \/ ~isCoordinatedRoutineRunning(drive') /\ drive'.wRef = F(0) ]_vars

\* setTwist has been called with a twist other than the references while a
\* coordinated routine was running
C19_Witness ==
  /\ call.op = "setTwist"
  /\ call.from # "CoordIdle"
  /\ isCoordinatedRoutineRunning(drive)
  /\ <<call.v, call.w>> # <<drive.vRef, drive.wRef>>

\* C20: abortCoordinatedRoutine called while a coordinated routine runs puts
\* the coordinator in Idle and sets v_ref, w_ref, v_cmd, w_cmd and both
\* wheels' omega references to 0; called while none runs it changes nothing
C20_AbortZeroesReferences ==
  [][ CallStep("abortCoordinatedRoutine") =>
        IF isCoordinatedRoutineRunning(drive)
        THEN /\ drive'.coordState = "CoordIdle"
             /\ drive'.vRef = F(0) /\ drive'.wRef = F(0)
             /\ drive'.vCmd = F(0) /\ drive'.wCmd = F(0)
             /\ \A w \in Wheels : wheel'[w].omegaRef = F(0)
        ELSE /\ drive' = drive
             /\ UNCHANGED <<wheel, enc, cal, nvs, was, lastConsumed>> ]_vars

\* a coordinated routine whose last update gave the right wheel's PID a
\* non-zero reference has been aborted
C20_Witness ==
  /\ call.op = "abortCoordinatedRoutine"
  /\ call.from # "CoordIdle"
  /\ wheel["R"].pid.e # F(0)
  /\ drive.coordState = "CoordIdle"
  /\ drive.wCmd = F(0)
  /\ \A w \in Wheels : wheel[w].omegaRef = F(0)

\* the omega reference the drive has published to wheel w
PublishedOmega(d, w) == IF w = "R" THEN d.omegaR_cmd ELSE d.omegaL_cmd

\* the sign of a reference, zero counting as positive
RefSignOf(omega) == IF FLeq(F(0), omega) THEN 1 ELSE -1

\* the output of a PID whose state is (0, 0, 0) for the error e
FirstOutput(p, e) ==
  IF p.cfg.clampOutput THEN clamp(FMul(p.c0, e), p.cfg.uMin, p.cfg.uMax)
  ELSE FMul(p.c0, e)

\* C21: when setOmegaRef changes the sign of a wheel's reference, the PID state
\* (u_prev, e1, e2) is (0, 0, 0) when the next Wheel::update begins: the
\* update that follows the flip leaves e2 = 0 and the output clamp(c0 * e),
\* sent to the motor with the new sign (where no assist command is set or
\* restored after it in the same tick); a flip made outside an update (the
\* exit of a coordinated routine) leaves the state (0, 0, 0)
C21_SignFlipResetsPID ==
  [][ \A w \in Wheels :
        /\ ( /\ TickStep
             /\ RefSignOf(PublishedOmega(drive', w)) # wheel[w].lastRefSign
             /\ isCoordinatedRoutineRunning(drive) => isCoordinatedRoutineRunning(drive') ) =>
              \A e \in {FSub(FAbs(PublishedOmega(drive', w)), enc'[w].omega)} :
                /\ wheel'[w].pid.e1 = e
                /\ wheel'[w].pid.e2 = F(0)
                /\ wheel'[w].pid.uPrev = FirstOutput(wheel[w].pid, e)
                /\ ( /\ drive'.coordState = drive.coordState
                     /\ wheel'[w].assistMode = wheel[w].assistMode ) =>
                      wheel'[w].motor.uTarget =
                        clamp1(IF wheel'[w].refSign >= 0 THEN wheel'[w].pid.uPrev
                               ELSE FNeg(wheel'[w].pid.uPrev))
        /\ ( /\ ~TickStep
             /\ wheel'[w].lastRefSign # wheel[w].lastRefSign ) =>
              /\ wheel'[w].pid.uPrev = F(0)
              /\ wheel'[w].pid.e1 = F(0)
              /\ wheel'[w].pid.e2 = F(0) ]_vars

\* an update has just flipped the right wheel's reference to negative after
\* its PID had saturated: the PID restarted from the error of this update
C21_Witness ==
  /\ call.op = "update"
  /\ wheel["R"].refSign = -1
  /\ FLess(wheel["R"].omegaRef, F(0))
  /\ wheel["R"].pid.e2 = F(0)
  /\ wheel["R"].pid.e1 # F(0)
  /\ wheel["R"].pid.uPrev = FirstOutput(wheel["R"].pid, wheel["R"].pid.e1)
  /\ FLess(wheel["R"].motor.uTarget, F(0))

(***************************************************************************)
(* The estimator: speed, sector index, timeout, pulse window (SpecEst)     *)
(***************************************************************************)
\* C22: in every reachable state the omega and the rpm the estimator reports
\* are >= 0, for every configuration, invert = true included
C22_OmegaIsMagnitude ==
  \A w \in Wheels : FLeq(F(0), enc[w].omega) /\ FLeq(F(0), enc[w].rpm)

\* C23: the sector index stays in [0, PPR) and changes only when a pulse is
\* processed: a processed pulse moves it one step in the step direction
\* (+1 or -1 mod PPR), the completion of a calibration or an alignment
\* included, and nothing else changes it
C23_SectorIndexStepsWithPulses ==
  /\ [](\A w \in Wheels : enc[w].sectorIdx \in 0..(enc[w].ppr - 1))
  /\ [][ \A w \in Wheels :
            enc'[w].sectorIdx =
              IF ret'.op = "applyPeriod" /\ ret'.w = w
              THEN advanceSector(enc[w].sectorIdx, enc[w].stepDir, enc[w].ppr)
              ELSE enc[w].sectorIdx ]_vars

\* C24: an update of a wheel's estimator made when no pulse of that wheel
\* has been accepted since its previous update and the pulse timeout has
\* expired sets rpm, omega and periodEmaUs to 0, whatever the other wheel's
\* estimator has done in the meantime
C24_TimeoutZeroesSpeed ==
  [][ \A w \in Wheels :
        ( /\ call'.op = "EncoderPCNT::update"
          /\ call'.wheel = w
          /\ call'.ok
          /\ enc[w].isrCount = hist.prevCount[w] ) =>
            /\ enc'[w].rpm = F(0)
            /\ enc'[w].omega = F(0)
            /\ enc'[w].periodEmaUs = F(0) ]_vars

\* C25: with minGapUs set, a hardware pulse at now_us with
\* now_us - last_us < minGapUs is dropped, leaving count, last_period_us and
\* last_us as they were; every other pulse records
\* last_period_us = now_us - last_us, adds one to count and sets
\* last_us = now_us, last_us being 0 before the first pulse
C25_PulseWindow ==
  [][ \A w \in Wheels :
        (call'.op = "_onPulseIsr" /\ call'.wheel = w) =>
          IF enc[w].cfg.minGapUs > 0 /\ call'.nowUs - enc[w].isrLastUs < enc[w].cfg.minGapUs
          THEN /\ enc'[w].isrCount = enc[w].isrCount
               /\ enc'[w].isrPeriodUs = enc[w].isrPeriodUs
               /\ enc'[w].isrLastUs = enc[w].isrLastUs
          ELSE /\ enc'[w].isrCount = enc[w].isrCount + 1
               /\ enc'[w].isrPeriodUs = call'.nowUs - enc[w].isrLastUs
               /\ enc'[w].isrLastUs = call'.nowUs ]_vars

(***************************************************************************)
(* The motor stage: slew limit and the disabled state (SpecMotor)          *)
(***************************************************************************)

\* x lies between a and b, whichever of the two is the larger
FBetween(x, a, b) ==
  \/ FLeq(a, x) /\ FLeq(x, b)
  \/ FLeq(b, x) /\ FLeq(x, a)

\* C26: target and applied command stay in [-1, +1] in every reachable
\* state; every update(dt) of an enabled motor with slewRatePerSec > 0
\* changes the applied command by at most slewRatePerSec * dt, towards the
\* target and never past it, for every dt given; with slewRatePerSec <= 0
\* the applied command equals the target after the update.
C26_SlewLimit ==
  /\ [](/\ FBetween(TheMotor.uTarget, F(-1), F(1))
        /\ FBetween(TheMotor.uApplied, F(-1), F(1)))
  /\ [][call'.op = "MotorPWM::update" /\ TheMotor.enabled =>
          IF FLess(F(0), TheMotor.cfg.slewRatePerSec)
          THEN /\ FLeq(FAbs(FSub(TheMotor'.uApplied, TheMotor.uApplied)),
                       FMul(TheMotor.cfg.slewRatePerSec, call'.v))
               /\ FBetween(TheMotor'.uApplied, TheMotor.uApplied, TheMotor.uTarget)
          ELSE TheMotor'.uApplied = TheMotor.uTarget]_vars

\* C27: while the motor is disabled both PWM channel duties are 0 and the
\* applied command is 0, whatever setCommand, update and stop calls are
\* made in the meantime and in both neutral modes.
C27_DisabledOutputsStayZero ==
  ~TheMotor.enabled =>
    /\ TheMotor.dutyIn1 = 0
    /\ TheMotor.dutyIn2 = 0
    /\ TheMotor.uApplied = F(0)

(***************************************************************************)
(* zero() and the pulses after it (SpecZero)                               *)
(***************************************************************************)
\* C38: after zero(), while no new pulse arrives, update processes no
\* pulse: the sector index stays 0 and omega stays 0; every pulse accepted
\* after zero() is then processed exactly once, whatever the pulse count
\* was before zero().
C38_ZeroStartsAfresh ==
  /\ [](\A w \in Wheels :
          (hist.zeroed[w] /\ enc[w].isrCount = 0) =>
            enc[w].sectorIdx = 0 /\ FIsZero(enc[w].omega))
  /\ [][\A w \in Wheels :
          (call'.op = "EncoderPCNT::update" /\ call'.wheel = w /\ hist.zeroed[w]) =>
            hist'.applied = [wrapped |-> FALSE,
                             mag |-> enc[w].isrCount - hist.prevCount[w]]]_vars

(***************************************************************************)
(* The phases of the TrajectoryRunner and the twist it sends (SpecTraj)    *)
(***************************************************************************)
\* the place of a state in the order Idle, Rotating, Advancing, Done
PhaseRank(s) ==
  CASE s = "Idle" -> 0
    [] s = "Rotating" -> 1
    [] s = "Advancing" -> 2
    [] s = "Done" -> 3

\* the state planRotateAdvance(dtheta, dist, ..) must start in
FirstPhase(dtheta, dist) ==
  IF ~FIsZero(dtheta) THEN "Rotating"
  ELSE IF ~FIsZero(dist) THEN "Advancing"
  ELSE "Done"

\* a step of the runner keeps the order of the phases and sends a twist on
\* one axis only
RunnerStepInOrder ==
  /\ call'.op = "planRotateAdvance" =>
       script'.state = FirstPhase(call'.w, call'.v)
  /\ call'.op # "planRotateAdvance" =>
       /\ PhaseRank(script.state) <= PhaseRank(script'.state)
       /\ script.state = "Done" => script'.state = "Done"
  /\ call'.op = "Runner::update" =>
       /\ script.state = "Rotating" => FIsZero(call'.v)
       /\ script.state = "Advancing" => FIsZero(call'.w)
       /\ script.state \in {"Idle", "Done"} => FIsZero(call'.v) /\ FIsZero(call'.w)
       /\ script'.state = "Rotating" => FIsZero(call'.v)
       /\ script'.state = "Advancing" => FIsZero(call'.w)
       /\ script'.state \in {"Idle", "Done"} => FIsZero(call'.v) /\ FIsZero(call'.w)
       /\ FIsZero(call'.v) \/ FIsZero(call'.w)

\* C40: the runner's phases only go Rotating, Advancing, Done: a plan starts
\* in the first phase whose displacement is not zero (Done when both are), no
\* other call moves the runner backwards or out of Done, and the runner is
\* never in a phase whose displacement is zero; the twist update() hands to
\* the drive has v = 0 while Rotating, w = 0 while Advancing and is (0, 0)
\* while Idle or Done, so v and w are never both nonzero.
C40_PhasesInOrderOneAxis ==
  /\ [](/\ script.state = "Rotating" => FLess(F(0), script.planRot.dq)
        /\ script.state = "Advancing" => FLess(F(0), script.planLin.dq))
  /\ [][RunnerStepInOrder]_vars

\* update() has sent a forward speed in the run that followed a turn
C40_AdvancingAfterTurn ==
  /\ call.op = "Runner::update"
  /\ call.from = "Advancing"
  /\ script.state = "Advancing"
  /\ ~FIsZero(call.v)
  /\ FIsZero(call.w)
  /\ FLess(F(0), script.planRot.dq)

(***************************************************************************)
(* reset(u0) of the PIDVel of part_002 (SpecPid)                           *)
(***************************************************************************)
\* C39: after reset(u0) the outputs of the following update calls depend
\* only on u0, the gains and limits, and the inputs supplied after the
\* reset: two controllers with different histories before the reset, one
\* running next to the other, return identical outputs for identical later
\* inputs, in both discretization modes.
C39_ResetForgetsHistory ==
  (call.ok /\ call.op \in {"PIDVel::reset", "PIDVel::update"}) =>
    wheel["R"].pid.uSat = wheel["L"].pid.uSat

(***************************************************************************)
(* The two channels of a sign-magnitude motor (SpecPins)                   *)
(***************************************************************************)
\* the output update() hands to _applyOutputs_ for applied command u
OutputOf(m) == applyDeadbandMin(m.uApplied, m.cfg.deadband, m.cfg.minOutput)

\* C37: in SignMagnitude drive mode with Coast neutral at most one of the
\* two channel duties is nonzero at every point in time, including between
\* the two channel writes of one update that reverses the direction; after
\* an update a positive output drives only IN1, a negative output only IN2,
\* a zero output neither.
C37_OneChannelAtATime ==
  (TheMotor.cfg.driveMode = "SignMagnitude" /\ TheMotor.cfg.neutralMode = "Coast") =>
    /\ TheMotor.dutyIn1 = 0 \/ TheMotor.dutyIn2 = 0
    /\ (call.op = "MotorPWM::update" /\ ~BetweenWrites) =>
         /\ FLess(F(0), OutputOf(TheMotor)) =>
              TheMotor.dutyIn1 > 0 /\ TheMotor.dutyIn2 = 0
         /\ FLess(OutputOf(TheMotor), F(0)) =>
              TheMotor.dutyIn1 = 0 /\ TheMotor.dutyIn2 > 0
         /\ FIsZero(OutputOf(TheMotor)) =>
              TheMotor.dutyIn1 = 0 /\ TheMotor.dutyIn2 = 0

(***************************************************************************)
(* The wheel limit of the drive (SpecTwist)                                *)
(***************************************************************************)

\* the larger of |a| and |b|
FMaxAbs(a, b) == IF FLess(FAbs(b), FAbs(a)) THEN FAbs(a) ELSE FAbs(b)

\* a tick of the drive made while no coordinated routine is active, with a
\* positive wheel limit and rescaling enabled
LimitedTick ==
  /\ call'.op = "update"
  /\ drive.coordState = "CoordIdle"
  /\ FLess(F(0), drive.cfg.omegaWheelMax)
  /\ drive.cfg.rescaleTwistToWheelLimit

\* C28: with omegaWheelMax > 0 and rescaling enabled, after every update
\* made while no coordinated routine is active the wheel references
\* published are those of the commanded twist, (v +- (L/2) w) / r, and the
\* larger of their magnitudes is at most omegaWheelMax; the commanded twist
\* is the ramped twist scaled in v and w by the same factor (v/w unchanged),
\* the factor being omegaWheelMax / max when the raw maximum exceeds the
\* limit, which puts the larger magnitude exactly on the limit.
C28_RescaleToWheelLimit ==
  [][LimitedTick =>
       \E pre \in {applyLimitsAndRamps(drive, TickDt)} :
         \E raw \in {FMaxAbs(FDiv(FAdd(pre.vCmd, FMul(FRat(1, 10), pre.wCmd)), FRat(1, 20)),
                              FDiv(FSub(pre.vCmd, FMul(FRat(1, 10), pre.wCmd)), FRat(1, 20)))} :
           /\ wheel'["R"].omegaRef =
                FDiv(FAdd(drive'.vCmd, FMul(FRat(1, 10), drive'.wCmd)), FRat(1, 20))
           /\ wheel'["L"].omegaRef =
                FDiv(FSub(drive'.vCmd, FMul(FRat(1, 10), drive'.wCmd)), FRat(1, 20))
           /\ FLeq(FMaxAbs(wheel'["R"].omegaRef, wheel'["L"].omegaRef),
                   drive.cfg.omegaWheelMax)
           /\ FMul(drive'.vCmd, pre.wCmd) = FMul(drive'.wCmd, pre.vCmd)
           /\ IF FLess(drive.cfg.omegaWheelMax, raw)
              THEN /\ FMaxAbs(wheel'["R"].omegaRef, wheel'["L"].omegaRef)
                        = drive.cfg.omegaWheelMax
                   /\ drive'.vCmd = FMul(pre.vCmd, FDiv(drive.cfg.omegaWheelMax, raw))
                   /\ drive'.wCmd = FMul(pre.wCmd, FDiv(drive.cfg.omegaWheelMax, raw))
              ELSE drive'.vCmd = pre.vCmd /\ drive'.wCmd = pre.wCmd]_vars

\* the twist v = 1, w = 1 has ramped up to raw wheel speeds (22, 18) and the
\* update has published omega_R = 20 with v = w = 10/11
C28_Witness ==
  /\ call.op = "update"
  /\ drive.coordState = "CoordIdle"
  /\ drive.cfg.rescaleTwistToWheelLimit
  /\ drive.vRef = F(1) /\ drive.wRef = F(1)
  /\ drive.vCmd = FRat(10, 11) /\ drive.wCmd = FRat(10, 11)
  /\ wheel["R"].omegaRef = F(20)
  /\ wheel["L"].omegaRef = FRat(180, 11)

(***************************************************************************)
(* The calibrator over its life: patterns and clear() (SpecLife)           *)
(***************************************************************************)

\* the mean of 1/s[j] over the sectors of a LUT without zeros
MeanInverse(lut, ppr) ==
  FDiv(FSumTo([k \in 0 .. (ppr - 1) |-> FDiv(F(1), lut[k])], ppr), F(ppr))

\* pattern pat and flag ready are what a rebuild from LUT lut produces
ReflectsLUT(pat, ready, lut, ppr) ==
  /\ [pat |-> pat, ready |-> ready] = buildPatternFromLUT(lut, ppr)
  /\ (\A k \in 0 .. (ppr - 1) : FLess(F(0), lut[k])) =>
       \A k \in 0 .. (ppr - 1) :
         pat[k] = FDiv(FDiv(F(1), lut[k]), MeanInverse(lut, ppr))

\* C29: after load() and after every later calibrator operation (load,
\* save, clear, calibration completion, alignment completion), in both
\* directions the pattern and its ready flag are those a rebuild from the
\* current LUT produces, p[k] = (1/s[k]) / mean_j(1/s[j]).
C29_PatternReflectsLUT ==
  \A w \in Wheels :
    /\ ReflectsLUT(cal[w].patFwd, cal[w].patFwdReady, cal[w].lutFwd, cal[w].cfg.ppr)
    /\ ReflectsLUT(cal[w].patRev, cal[w].patRevReady, cal[w].lutRev, cal[w].cfg.ppr)

\* a reverse calibration has just completed and left a reverse LUT that is
\* neither flat nor the one loaded, with a ready reverse pattern
C29_Witness ==
  /\ ret.op = "applyPeriod"
  /\ ret.calDone
  /\ cal["R"].modeDir < 0
  /\ cal["R"].lutRev # Ones(PPR)
  /\ cal["R"].lutRev # LutB(PPR)
  /\ cal["R"].patRevReady

\* C30: after clear(), from any state, s_fwd[k] = s_rev[k] = 1.0 for all
\* k, both use flags are false, both offsets are 0, both patterns are not
\* ready, and the persistent store holds these same values: a load() that
\* follows, on this calibrator or on a freshly constructed one, yields them
\* again.
C30_ClearResets ==
  [][\A w \in Wheels :
       ret'.op = "clear" /\ ret'.w = w =>
         /\ cal'[w].lutFwd = Ones(cal[w].cfg.ppr)
         /\ cal'[w].lutRev = Ones(cal[w].cfg.ppr)
         /\ ~cal'[w].useFwd /\ ~cal'[w].useRev
         /\ cal'[w].offFwd = 0 /\ cal'[w].offRev = 0
         /\ ~cal'[w].patFwdReady /\ ~cal'[w].patRevReady
         /\ load(cal'[w], nvs'[w]) = cal'[w]
         /\ \E fresh \in {load(NewCalibrator(cal[w].cfg), nvs'[w])} :
              /\ fresh.lutFwd = Ones(cal[w].cfg.ppr)
              /\ fresh.lutRev = Ones(cal[w].cfg.ppr)
              /\ ~fresh.useFwd /\ ~fresh.useRev
              /\ fresh.offFwd = 0 /\ fresh.offRev = 0
              /\ ~fresh.patFwdReady /\ ~fresh.patRevReady]_vars

\* clear() has just been called in the middle of the second run of a
\* calibrator whose store still holds the legacy records
C30_Witness ==
  /\ ret.op = "clear"
  /\ ret.w = "R"
  /\ runs["R"] = MaxRuns
  /\ cal["R"].calibActive
  /\ cal["R"].calibLap = 0
  /\ nvs["R"].lut = LegacyStore.lut
  /\ ~cal["R"].useFwd

(***************************************************************************)
(* A calibration run without usable samples (SpecDry)                      *)
(***************************************************************************)

\* the calibrator of wheel w once the pulse of this step has been fed to it
FedNow(w) == feedPeriod(cal[w], ret'.k, ret'.dt)

\* this step feeds wheel w the pulse that completes the last lap of its
\* calibration run, and no sector of the run has a positive trimmed mean
DryCompletion(w) ==
  /\ ret'.op = "applyPeriod"
  /\ ret'.w = w
  /\ cal[w].calibActive
  /\ cal[w].calibLap < cal[w].calibTargetN
  /\ FedNow(w).calibLap = cal[w].calibTargetN
  /\ \A k \in 0 .. (cal[w].cfg.ppr - 1) : ~FLess(F(0), sectorMeanOf(FedNow(w), k))

\* C31: a calibration run that reaches its target lap count without any
\* sector having a positive trimmed mean ends with the calibrator no longer
\* calibrating and nothing reported as done, and leaves both LUTs, both
\* patterns with their ready flags, the use flags and the persistent store
\* as they were.
C31_DryRunLeavesLUT ==
  [][\A w \in Wheels :
       DryCompletion(w) =>
         /\ ~cal'[w].calibActive
         /\ ~cal'[w].alignActive
         /\ ~ret'.calDone
         /\ cal'[w].lutFwd = cal[w].lutFwd
         /\ cal'[w].lutRev = cal[w].lutRev
         /\ cal'[w].patFwd = cal[w].patFwd
         /\ cal'[w].patRev = cal[w].patRev
         /\ cal'[w].patFwdReady = cal[w].patFwdReady
         /\ cal'[w].patRevReady = cal[w].patRevReady
         /\ cal'[w].useFwd = cal[w].useFwd
         /\ cal'[w].useRev = cal[w].useRev
         /\ nvs'[w] = nvs[w]]_vars

\* a two-lap reverse run has just ended with nothing but zero periods in
\* its buffer, on a calibrator whose LUTs are not flat
C31_Witness ==
  /\ ret.op = "applyPeriod"
  /\ ~ret.calDone
  /\ ret.dt = F(0)
  /\ ~cal["R"].calibActive
  /\ cal["R"].calibTargetN = 2
  /\ cal["R"].calibLap = 2
  /\ cal["R"].modeDir < 0
  /\ \A i \in 0 .. (2 * PPR - 1) : cal["R"].dtFilled[i] /\ cal["R"].dtBuf[i] = F(0)
  /\ cal["R"].lutRev = LutB(PPR)

(***************************************************************************)
(* Starts during a run (SpecStart)                                         *)
(***************************************************************************)

\* the calibration run of calibrator d is the one of calibrator c, untouched
SameCalibRun(c, d) ==
  /\ d.calibActive = c.calibActive
  /\ d.calibLap = c.calibLap
  /\ d.calibTargetN = c.calibTargetN
  /\ d.dtBuf = c.dtBuf
  /\ d.dtFilled = c.dtFilled

\* the alignment run of calibrator d is the one of calibrator c, untouched
SameAlignRun(c, d) ==
  /\ d.alignActive = c.alignActive
  /\ d.alignLap = c.alignLap
  /\ d.alignTargetN = c.alignTargetN
  /\ d.alignBuf = c.alignBuf

\* C32: a start of a calibration while a calibration run is active leaves
\* that run's lap counter, target and recorded samples unchanged, and so
\* does a start of an alignment while an alignment run is active; a start
\* of the other kind of routine leaves the active run unchanged as well.
C32_StartDoesNotDisturbActiveRun ==
  [][\A w \in Wheels :
       /\ (ret'.op \in {"startCalibrationDir", "Wheel::startCalibration"}
           /\ ret'.w = w /\ cal[w].calibActive)
          => SameCalibRun(cal[w], cal'[w])
       /\ (ret'.op \in {"startAlignmentDir", "Wheel::startAlignment"}
           /\ ret'.w = w /\ cal[w].alignActive)
          => SameAlignRun(cal[w], cal'[w])
       /\ (ret'.op \in {"startAlignmentDir", "Wheel::startAlignment"}
           /\ ret'.w = w /\ cal[w].calibActive)
          => SameCalibRun(cal[w], cal'[w])
       /\ (ret'.op \in {"startCalibrationDir", "Wheel::startCalibration"}
           /\ ret'.w = w /\ cal[w].alignActive)
          => SameAlignRun(cal[w], cal'[w])]_vars

\* C35: when an alignment run completes, every lap row the shift search
\* uses holds a period sample fed during that run for each of the PPR
\* sectors (the run's start zeroes the rows, and every period fed is
\* positive), whatever the sector index was when the run started and
\* whichever the step direction.
C35_AlignmentRowsComplete ==
  [][\A w \in Wheels :
       (ret'.op = "applyPeriod" /\ ret'.w = w /\ ret'.alignDone) =>
         \A lap \in 0 .. (cal'[w].alignTargetN - 1) :
           \A k \in 0 .. (cal'[w].cfg.ppr - 1) :
             FLess(F(0), cal'[w].alignBuf[idx2D(k, lap, cal'[w].cfg.ppr)])]_vars

(***************************************************************************)
(* Coordinated routines: exclusivity, abort, termination (SpecDrive)       *)
(***************************************************************************)

\* C33: while a coordinated routine is running, the calibrator of the wheel
\* that is not the one of the current sub-phase is idle, neither
\* calibrating nor aligning; this includes the coordinated alignment that
\* DifferentialDrive::begin() starts on boot after both wheels' begin().
C33_OnlyPhaseWheelBusy ==
  isCoordinatedRoutineRunning(drive) =>
    ~RoutineActive(cal[OtherWheel(PhaseWheel(drive.coordState))])

\* C34: when abortCoordinatedRoutine returns neither wheel is calibrating
\* or aligning, so no pulse that arrives after the abort can complete a run
\* of the aborted routine and overwrite or persist a LUT or an offset.
C34_AbortEndsWheelRoutines ==
  [][CallStep("abortCoordinatedRoutine") =>
       \A w \in Wheels : ~RoutineActive(cal'[w])]_vars

(***************************************************************************)
(* Coordinated routines under fair pulses and updates (SpecLive)           *)
(***************************************************************************)
\* an update() that finds the routine of the current sub-phase not running
\* leaves the sub-phase
LeavesUnstartedPhase ==
  (call'.op = "update" /\ isCoordinatedRoutineRunning(drive)
     /\ ~PhaseRoutineActive(drive.coordState, cal[PhaseWheel(drive.coordState)])) =>
    drive'.coordState # drive.coordState

\* C36: every coordinated routine eventually returns the coordinator to
\* Idle, provided update keeps being called and the wheel of the current
\* sub-phase keeps producing accepted pulses; a sub-phase whose wheel
\* routine could not be started is left at the next update.
C36_CoordinatedRoutineEnds ==
  /\ isCoordinatedRoutineRunning(drive) ~> ~isCoordinatedRoutineRunning(drive)
  /\ [][LeavesUnstartedPhase]_vars

(***************************************************************************)
(* Pulse capture and catch-up (SpecEnc)                                    *)
(***************************************************************************)
\* the step is the end of an update() call
UpdateReturns == task.pc = "unlock" /\ task'.pc = "lock"

\* C2: every update() of an estimator applies exactly (count in this snapshot
\* minus count in the same estimator's previous snapshot) pulses and moves
\* its sector index that many steps modulo PPR in its step direction
C2_UpdateConsumesOwnPulses ==
  [][ UpdateReturns =>
        \E w \in {task.w} :
          \E n \in {task.cntSnap - hist.prevCount[w]} :
            /\ hist'.applied = [wrapped |-> FALSE, mag |-> n]
            /\ enc'[w].sectorIdx =
                 IF enc[w].stepDir > 0 THEN (enc[w].sectorIdx + n) % enc[w].ppr
                 ELSE (enc[w].sectorIdx - n) % enc[w].ppr ]_vars

\* C3: the triple (count, last_period_us, last_us) update() has read is the
\* triple as it stood after some whole number of completed ISR invocations,
\* and the ISR is at a write to one of the three words only while it holds
\* the lock the reader takes
C3_SnapshotNotTorn ==
  /\ task.pc = "unlock" =>
       <<task.cntSnap, task.perSnap, task.lastUsSnap>> \in hist.triples[task.w]
  /\ \A w \in Wheels :
       isr[w].pc \in {"lastUs", "period", "count"} => mux[w] = "isr"

=============================================================================
